---------------------------- MODULE Spec2Model ----------------------------
(***************************************************************************)
(* State-machine model of the market monitor: the JSON state file and its  *)
(* save/load (utils/persistence.py), the monitor's change tracker and      *)
(* trade dedup (main.py), the token bucket, the retry policy and the       *)
(* rate-limited request (utils/rate_limiter.py), the rolling history of    *)
(* the spike detector (analysis/spike_detection.py), run() with its tasks,  *)
(* the signal handler and shutdown() (main.py), the MarketEvent dataclass  *)
(* (polymarket/models/market_event.py) and the limiter's lock.             *)
(*                                                                         *)
(* Time is an integer number of clock ticks.  A datetime is a tick count;  *)
(* TicksPerSec ticks make one whole second, the remainder is the           *)
(* sub-second (microsecond) part of the datetime.                          *)
(***************************************************************************)
EXTENDS Integers, Sequences, FiniteSets, TLC

\* ------------------------------------------------------------------ bounds
MaxTime == 3
TicksPerSec == 2
DocChunks == 2
MaxBatch == 2
MaxLives == 2

MarketKeys == {"polymarket:a", "kalshi:b"}
TradeKeys == {"ev:1:10", "ev:2:20"}

Times == 0..MaxTime

\* Timestamps without and with a sub-second part, in the first seconds.
StampTimes == {0, 1, TicksPerSec}

Min(a, b) == IF a <= b THEN a ELSE b
Max(a, b) == IF a >= b THEN a ELSE b

Range(s) == {s[i] : i \in DOMAIN s}

\* ------------------------------------------------------------- persistence
VARIABLES
    state_file_dir,  \* os.path.dirname(self.state_file): "" for a bare file name
    fs_dest,         \* the file at state_file
    fs_tmp,          \* the file at state_file + ".tmp"
    save_pc,         \* position of the running save() call
    save_data,       \* the dict `data` save() built
    save_args,       \* the arguments of the last save() call
    save_fault,      \* the environment failed an I/O call of the last save()
    op_log,          \* "save" after a save() returned, "load" after a load, ...
    load_result      \* what the last load_sets() call returned

persistVars == <<state_file_dir, fs_dest, fs_tmp, save_pc, save_data,
                 save_args, save_fault, op_log, load_result>>

\* The JSON value of a state file (the object save() writes, the legacy
\* layout with a list of trade ids, or a document that is no object).
\* markets_shape and trades_shape are the JSON types found under the two
\* keys: "none" when the key is missing.
NoJson ==
    [shape |-> "none", markets_shape |-> "none", known_market_ids |-> <<>>,
     trades_shape |-> "none", trade_list |-> <<>>, trade_map |-> <<>>,
     last_saved |-> <<>>]

NoFile == [exists |-> FALSE, written |-> 0, json |-> NoJson]

\* datetime.isoformat(): the fraction is printed only when it is not zero.
Isoformat(d) ==
    IF d % TicksPerSec = 0 THEN <<d \div TicksPerSec>>
    ELSE <<d \div TicksPerSec, d % TicksPerSec>>

\* datetime.fromisoformat(): both printed forms parse; anything else is a
\* ValueError, reported here as -1.
FromIsoformat(s) ==
    IF Len(s) = 1 THEN s[1] * TicksPerSec
    ELSE IF Len(s) = 2 THEN s[1] * TicksPerSec + s[2]
    ELSE -1

\* list(known_market_ids): the elements of the set in some order.
RECURSIVE SetToList(_)
SetToList(S) ==
    IF S = {} THEN <<>>
    ELSE LET x == CHOOSE y \in S : TRUE IN <<x>> \o SetToList(S \ {x})

\* The dict save() serialises (persistence.py lines 69-75).
SaveData(market_ids, trade_ids, now) ==
    [shape            |-> "object",
     markets_shape    |-> "list",
     known_market_ids |-> SetToList(market_ids),
     trades_shape     |-> "dict",
     trade_list       |-> <<>>,
     trade_map        |-> [tid \in DOMAIN trade_ids |-> Isoformat(trade_ids[tid])],
     last_saved       |-> Isoformat(now)]

\* A file holding the first n chunks of the text of json.
FileOf(json, n) == [exists |-> TRUE, written |-> n, json |-> json]

\* json.load() succeeds only on a complete document.
JsonComplete(file) == file.exists /\ file.written = DocChunks

EmptyState == [market_ids |-> {}, trade_ids |-> <<>>, raised |-> FALSE, warned |-> FALSE]

\* data.get(...) (persistence.py lines 40, 42) on a document that is a
\* list, a number, a string or null: an AttributeError; set(...) (line 40)
\* of a number or of null: a TypeError.  Neither is caught.
LoadRaises(json) ==
    \/ json.shape # "object"
    \/ json.markets_shape = "scalar"

\* load_sets() (persistence.py lines 24-56) at wall-clock time now.
LoadSets(file, now) ==
    IF ~file.exists THEN EmptyState
    ELSE IF ~JsonComplete(file) THEN [EmptyState EXCEPT !.warned = TRUE]
    ELSE IF LoadRaises(file.json) THEN [EmptyState EXCEPT !.raised = TRUE]
    ELSE LET data == file.json
             market_ids == Range(data.known_market_ids)
             trade_ids ==
                 IF data.trades_shape = "list"
                 THEN [tid \in Range(data.trade_list) |-> now]
                 ELSE IF data.trades_shape = "dict"
                 THEN [tid \in DOMAIN data.trade_map |->
                          IF FromIsoformat(data.trade_map[tid]) >= 0
                          THEN FromIsoformat(data.trade_map[tid])
                          ELSE now]
                 ELSE <<>>
         IN [market_ids |-> market_ids, trade_ids |-> trade_ids,
             raised |-> FALSE, warned |-> FALSE]

\* save() up to the try block (persistence.py lines 69-75): build `data`.
SaveBegin(market_ids, trade_ids, now) ==
    /\ save_pc = "idle"
    /\ save_pc' = "makedirs"
    /\ save_data' = SaveData(market_ids, trade_ids, now)
    /\ save_args' = [market_ids |-> market_ids, trade_ids |-> trade_ids,
                     dest_before |-> fs_dest]
    /\ save_fault' = FALSE
    /\ op_log' = "saving"
    /\ UNCHANGED <<state_file_dir, fs_dest, fs_tmp, load_result>>

\* os.makedirs(os.path.dirname(self.state_file), exist_ok=True) (line 78).
\* dirname is "" for a bare file name and os.makedirs("") raises
\* FileNotFoundError, an IOError: the handler of line 83 prints it and save()
\* returns with nothing written.
MakedirsRaises(dir) == dir = ""

SaveMakedirs ==
    /\ save_pc = "makedirs"
    /\ IF MakedirsRaises(state_file_dir)
       THEN save_pc' = "idle" /\ op_log' = "save"
       ELSE save_pc' = "open" /\ op_log' = op_log
    /\ UNCHANGED <<state_file_dir, fs_dest, fs_tmp, save_data, save_args,
                   save_fault, load_result>>

\* A save that opens the state file itself for writing.
SaveOpen_InPlace ==
    /\ save_pc = "open"
    /\ fs_dest' = FileOf(save_data, 0)
    /\ fs_tmp' = FileOf(save_data, 0)
    /\ save_pc' = "write"
    /\ UNCHANGED <<state_file_dir, save_data, save_args, save_fault,
                   op_log, load_result>>

\* open(tmp_file, "w") (lines 79-80): the temp file is created or truncated.
SaveOpen ==
    /\ save_pc = "open"
    /\ fs_tmp' = FileOf(save_data, 0)
    /\ save_pc' = "write"
    /\ UNCHANGED <<state_file_dir, fs_dest, save_data, save_args, save_fault,
                   op_log, load_result>>

\* json.dump(data, f, indent=2) (line 81): the text reaches the temp file
\* chunk by chunk; the `with` block closes it after the last one.
SaveWrite ==
    /\ save_pc = "write"
    /\ fs_tmp' = FileOf(save_data, fs_tmp.written + 1)
    /\ save_pc' = IF fs_tmp.written + 1 = DocChunks THEN "replace" ELSE "write"
    /\ UNCHANGED <<state_file_dir, fs_dest, save_data, save_args, save_fault,
                   op_log, load_result>>

\* os.replace(tmp_file, self.state_file) (line 82): one atomic rename.
SaveReplace ==
    /\ save_pc = "replace"
    /\ fs_dest' = fs_tmp
    /\ fs_tmp' = NoFile
    /\ save_pc' = "idle"
    /\ op_log' = "save"
    /\ UNCHANGED <<state_file_dir, save_data, save_args, save_fault, load_result>>

\* An I/O call of save() fails in the environment (disk full, permissions):
\* the IOError handler (lines 83-84) prints it and save() returns.
SaveIoError ==
    /\ save_pc \in {"open", "write", "replace"}
    /\ save_pc' = "idle"
    /\ save_fault' = TRUE
    /\ op_log' = "save"
    /\ UNCHANGED <<state_file_dir, fs_dest, fs_tmp, save_data, save_args, load_result>>

\* The process dies inside save(): the files stay as they are.
SaveCrash ==
    /\ save_pc # "idle"
    /\ save_pc' = "idle"
    /\ op_log' = "crash"
    /\ UNCHANGED <<state_file_dir, fs_dest, fs_tmp, save_data, save_args,
                   save_fault, load_result>>

\* A caller's save(known_market_ids, known_trade_ids) with any arguments.
SaveCall(market_sets, trade_keys, stamp_times, t) ==
    \E market_ids \in market_sets :
        \E tids \in SUBSET trade_keys :
            \E trade_ids \in [tids -> stamp_times] :
                SaveBegin(market_ids, trade_ids, t)

\* A caller's load_sets() (persistence.py lines 24-56), from this process
\* after save() returned or from another reader while save() is running.
LoadCall(t) ==
    /\ load_result' = LoadSets(fs_dest, t)
    /\ op_log' = IF op_log = "save" THEN "save_load"
                 ELSE IF op_log = "foreign" THEN "foreign_load"
                 ELSE op_log
    /\ UNCHANGED <<state_file_dir, fs_dest, fs_tmp, save_pc, save_data,
                   save_args, save_fault>>

\* The documents another writer can leave at the state file's path: an
\* object as save() writes it; the older layout with a list of trade ids; an
\* object whose timestamp does not parse; an empty object; an object whose
\* known_market_ids is a number; a list; a bare number or null.
ForeignJson ==
    {SaveData({"polymarket:a"}, [tid \in {"ev:1:10"} |-> 1], 0),
     [NoJson EXCEPT !.shape = "object", !.markets_shape = "list",
                    !.known_market_ids = <<"polymarket:a">>,
                    !.trades_shape = "list", !.trade_list = <<"ev:1:10">>],
     [NoJson EXCEPT !.shape = "object", !.markets_shape = "list",
                    !.trades_shape = "dict",
                    !.trade_map = [tid \in {"ev:1:10"} |-> <<0, 0, 0>>]],
     [NoJson EXCEPT !.shape = "object"],
     [NoJson EXCEPT !.shape = "object", !.markets_shape = "scalar"],
     [NoJson EXCEPT !.shape = "list"],
     [NoJson EXCEPT !.shape = "scalar"]}

\* The file at the path is put there by something else than save(): an
\* older version of the program, an editor, a copy; whole or cut short.
ForeignWrite ==
    \E json \in ForeignJson, n \in 0..DocChunks :
        /\ save_pc = "idle"
        /\ fs_dest' = FileOf(json, n)
        /\ op_log' = "foreign"
        /\ UNCHANGED <<state_file_dir, fs_tmp, save_pc, save_data, save_args,
                       save_fault, load_result>>

\* ----------------------------------------------------------------- monitor
VARIABLES
    now,               \* the wall clock (datetime.utcnow(), time.time()), in ticks
    known_market_ids,  \* MarketMonitor.known_market_ids
    last_probability,  \* MarketMonitor.last_probability: key -> probability
    known_trade_ids,   \* MarketMonitor.known_trade_ids: trade id -> admission time
    running,           \* MarketMonitor.running
    main_pc,           \* position of main()/run()/shutdown()
    life,              \* number of the process lifetime
    observed,          \* the keys process_market_update has handled this lifetime
    last_call,         \* the last process_market_update call and what it emitted
    trade_alerts,      \* trade id -> notify_large_trade calls this lifetime
    shutdown_log       \* what the last graceful shutdown handed to save()

monitorVars == <<known_market_ids, last_probability, known_trade_ids,
                 running, main_pc, life, observed, last_call, trade_alerts,
                 shutdown_log>>

\* Probabilities are counted in thousandths: 505 is 0.505.
ProbScale == 1000
Probs == {500, 505, 510}

\* config.PROBABILITY_CHANGE_THRESHOLD, in percentage points (config.py line 45).
PROBABILITY_CHANGE_THRESHOLD == 1

\* config.DATA_RETENTION_HOURS (config.py line 78, set from the environment),
\* counted in ticks and small enough for the clock to pass it.
DATA_RETENTION_HOURS == 2

Abs(x) == IF x < 0 THEN -x ELSE x

NoCall ==
    [key |-> "", prob |-> 0, first |-> FALSE, was_known |-> FALSE, prev |-> -1,
     emitted |-> FALSE, change_pp |-> 0, direction |-> "", direction_prob |-> 0]

\* A change test that leaves out a change of exactly the threshold.
ChangeFires_Strict(prev, curr) ==
    Abs(curr - prev) * 100 > PROBABILITY_CHANGE_THRESHOLD * ProbScale

\* change_pp >= threshold (main.py lines 98-102), with change_pp =
\* abs(curr - prev) * 100 and both sides multiplied by ProbScale.
ChangeFires(prev, curr) ==
    Abs(curr - prev) * 100 >= PROBABILITY_CHANGE_THRESHOLD * ProbScale

\* The dict handed to notifier.notify_spike (main.py lines 104-121).
SpikePayload(prev, curr) ==
    [direction      |-> IF curr - prev > 0 THEN "YES" ELSE "NO",
     direction_prob |-> IF curr - prev > 0 THEN curr ELSE ProbScale - curr,
     change_pp      |-> Abs(curr - prev) * 100]

None == -1

\* A lookup that defaults to 0.0 for a key with no stored probability.
PrevProbability_Default0(key) ==
    IF key \in DOMAIN last_probability THEN last_probability[key] ELSE 0

\* self.last_probability.get(unique_id) (main.py line 93).
PrevProbability(key) ==
    IF key \in DOMAIN last_probability THEN last_probability[key] ELSE None

\* A store that keeps the probability of the first observation as baseline.
StoreProbability_KeepBaseline(key, prob) ==
    IF key \in DOMAIN last_probability THEN last_probability
    ELSE [k \in DOMAIN last_probability \cup {key} |->
             IF k = key THEN prob ELSE last_probability[k]]

\* An update of the stored probability that is skipped when a signal fired.
StoreProbability_UnlessFired(key, prob) ==
    IF key \in DOMAIN last_probability /\ ChangeFires(last_probability[key], prob)
    THEN last_probability
    ELSE [k \in DOMAIN last_probability \cup {key} |->
             IF k = key THEN prob ELSE last_probability[k]]

\* self.last_probability[unique_id] = market.probability (main.py lines 89, 124).
StoreProbability(key, prob) ==
    [k \in DOMAIN last_probability \cup {key} |->
        IF k = key THEN prob ELSE last_probability[k]]

\* A tracker that keeps only the market it saw last.
TrackMarket_OnlyLatest(key) == {key}

\* self.known_market_ids.add(unique_id) (main.py line 87); for a tracked
\* market the set is left as it is.
TrackMarket(key) == known_market_ids \cup {key}

\* process_market_update(market) (main.py lines 77-124) for a market with
\* unique id key and probability prob.
ProcessMarketUpdate(key, prob) ==
    LET is_new == key \notin known_market_ids
        prev_prob == PrevProbability(key)
        fires == ~is_new /\ prev_prob # None /\ ChangeFires(prev_prob, prob)
    IN /\ main_pc = "running"
       /\ save_pc = "idle"
       /\ known_market_ids' = TrackMarket(key)
       /\ last_probability' = StoreProbability(key, prob)
       /\ last_call' =
              [key |-> key, prob |-> prob, first |-> key \notin observed,
               was_known |-> ~is_new, prev |-> prev_prob, emitted |-> fires,
               change_pp |-> IF fires THEN SpikePayload(prev_prob, prob).change_pp ELSE 0,
               direction |-> IF fires THEN SpikePayload(prev_prob, prob).direction ELSE "",
               direction_prob |->
                   IF fires THEN SpikePayload(prev_prob, prob).direction_prob ELSE 0]
       /\ observed' = observed \cup {key}

\* The loop over large_trades (main.py lines 207-217): each trade whose id is
\* not in known_trade_ids is admitted at time t and notified; a trade whose id
\* is known is skipped.  alerts[tid].notified counts the notify_large_trade
\* calls, alerts[tid].suppressed records that a sighting was skipped.
RECURSIVE CheckTrades_NotAdmitted(_, _, _, _)
CheckTrades_NotAdmitted(known, alerts, batch, t) ==
    IF batch = <<>> THEN [known |-> known, alerts |-> alerts]
    ELSE LET tid == Head(batch)
         IN IF tid \notin DOMAIN known
            THEN CheckTrades_NotAdmitted(
                     known, [alerts EXCEPT ![tid].notified = @ + 1],
                     Tail(batch), t)
            ELSE CheckTrades_NotAdmitted(
                     known, [alerts EXCEPT ![tid].suppressed = TRUE],
                     Tail(batch), t)

RECURSIVE CheckTrades(_, _, _, _)
CheckTrades(known, alerts, batch, t) ==
    IF batch = <<>> THEN [known |-> known, alerts |-> alerts]
    ELSE LET tid == Head(batch)
         IN IF tid \notin DOMAIN known
            THEN CheckTrades([x \in DOMAIN known \cup {tid} |->
                                 IF x = tid THEN t ELSE known[x]],
                             [alerts EXCEPT ![tid].notified = @ + 1],
                             Tail(batch), t)
            ELSE CheckTrades(known,
                             [alerts EXCEPT ![tid].suppressed = TRUE],
                             Tail(batch), t)

\* A cutoff test that also drops an id admitted exactly at the cutoff.
OldTradeIds_Inclusive(known, t) ==
    {tid \in DOMAIN known : known[tid] <= t - DATA_RETENTION_HOURS}

\* cleanup_known_trade_ids() (main.py lines 181-194) at time t.
OldTradeIds(known, t) ==
    {tid \in DOMAIN known : known[tid] < t - DATA_RETENTION_HOURS}

CleanupKnownTradeIds(known, t) ==
    [tid \in DOMAIN known \ OldTradeIds(known, t) |-> known[tid]]

BatchesOf(tids) == UNION {[1..n -> tids] : n \in 0..MaxBatch}

NoAlerts == [tid \in TradeKeys |-> [notified |-> 0, suppressed |-> FALSE]]

NoShutdown == [graceful |-> FALSE, trade_ids |-> <<>>]

\* MarketMonitor.__init__ (main.py lines 23-39): a fresh process.
FreshMonitor ==
    /\ known_market_ids = {}
    /\ last_probability = <<>>
    /\ known_trade_ids = <<>>
    /\ running = FALSE
    /\ main_pc = "start"
    /\ observed = {}
    /\ last_call = NoCall
    /\ trade_alerts = NoAlerts

\* initialize() (main.py lines 49-52) and run() up to line 398.
Initialize ==
    /\ main_pc = "start"
    /\ load_result' = LoadSets(fs_dest, now)
    /\ known_market_ids' = load_result'.market_ids
    /\ known_trade_ids' = load_result'.trade_ids
    /\ running' = TRUE
    /\ main_pc' = "running"
    /\ op_log' = "load"
    /\ UNCHANGED <<now, last_probability, life, observed, last_call, trade_alerts,
                   shutdown_log>>
    /\ UNCHANGED <<state_file_dir, fs_dest, fs_tmp, save_pc, save_data, save_args,
                   save_fault>>

\* One market of a poll cycle (main.py lines 290-291, 336-337).
MarketUpdate(keys, probs) ==
    \E key \in keys, prob \in probs :
        /\ ProcessMarketUpdate(key, prob)
        /\ UNCHANGED <<now, known_trade_ids, running, main_pc, life, trade_alerts,
                       shutdown_log>>
        /\ UNCHANGED persistVars

\* One iteration of poll_tracked_events_trades (main.py lines 236-248): the
\* trades fetched for the tracked event are checked, then old ids are pruned.
PollTrackedEventsTradesOf(batch) ==
    LET checked == CheckTrades(known_trade_ids, trade_alerts, batch, now)
    IN /\ main_pc = "running"
       /\ save_pc = "idle"
       /\ known_trade_ids' = CleanupKnownTradeIds(checked.known, now)
       /\ trade_alerts' = checked.alerts
       /\ UNCHANGED <<now, known_market_ids, last_probability, running, main_pc,
                      life, observed, last_call, shutdown_log>>
       /\ UNCHANGED persistVars

PollTrackedEventsTrades(batches) ==
    \E batch \in batches : PollTrackedEventsTradesOf(batch)

\* periodic_state_save() (main.py lines 381-382).
PeriodicStateSave ==
    /\ main_pc = "running"
    /\ SaveBegin(known_market_ids, known_trade_ids, now)
    /\ UNCHANGED <<now, monitorVars>>

\* shutdown() (main.py lines 442-457): with the tasks finished, the state
\* is handed to save().
Shutdown ==
    /\ main_pc = "running"
    /\ running' = FALSE
    /\ main_pc' = "sd_save"
    /\ SaveBegin(known_market_ids, known_trade_ids, now)
    /\ shutdown_log' = [graceful |-> TRUE, trade_ids |-> known_trade_ids]
    /\ UNCHANGED <<now, known_market_ids, last_probability, known_trade_ids, life,
                   observed, last_call, trade_alerts>>

\* shutdown() after the save (main.py lines 458-475): the process exits.
Exit ==
    /\ main_pc = "sd_save"
    /\ save_pc = "idle"
    /\ main_pc' = "exited"
    /\ UNCHANGED <<now, known_market_ids, last_probability, known_trade_ids, running,
                   life, observed, last_call, trade_alerts, shutdown_log>>
    /\ UNCHANGED persistVars

\* The process is killed: no shutdown(), no final save.
Kill ==
    /\ main_pc \in {"running", "sd_save"}
    /\ main_pc' = "exited"
    /\ running' = FALSE
    /\ save_pc' = "idle"
    /\ op_log' = "crash"
    /\ shutdown_log' = NoShutdown
    /\ UNCHANGED <<now, known_market_ids, last_probability, known_trade_ids, life,
                   observed, last_call, trade_alerts>>
    /\ UNCHANGED <<state_file_dir, fs_dest, fs_tmp, save_data, save_args, save_fault,
                   load_result>>

\* The program is started again: MarketMonitor() (main.py line 485).
Restart ==
    /\ main_pc = "exited"
    /\ life < MaxLives
    /\ life' = life + 1
    /\ known_market_ids' = {}
    /\ last_probability' = <<>>
    /\ known_trade_ids' = <<>>
    /\ running' = FALSE
    /\ main_pc' = "start"
    /\ observed' = {}
    /\ last_call' = NoCall
    /\ trade_alerts' = NoAlerts
    /\ UNCHANGED <<now, shutdown_log>>
    /\ UNCHANGED persistVars

\* The wall clock advances.
Tick ==
    /\ now < MaxTime
    /\ save_pc = "idle"
    /\ now' = now + 1

MonitorTick ==
    /\ Tick
    /\ UNCHANGED <<known_market_ids, last_probability, known_trade_ids, running,
                   main_pc, life, observed, last_call, trade_alerts,
                   shutdown_log>>
    /\ UNCHANGED persistVars

\* ------------------------------------------------- run, tasks and shutdown
VARIABLES
    enabled,      \* the tasks run() creates: ENABLE_POLYMARKET, ENABLE_KALSHI, tracked_events
    task,         \* each task of poll_tasks: where it is, and a pending cancel()
    signals,      \* SIGINT/SIGTERM deliveries handled so far
    final_saves   \* calls of persistence.save() made by shutdown()

lifeVars == <<enabled, task, signals, final_saves>>

MaxSignals == 1

TaskNames == {"save", "polymarket", "kalshi", "trades"}

\* failed: the task's last cycle ended in its `except Exception` handler.
NoTask == [pc |-> "none", cancel |-> FALSE, failed |-> FALSE]

\* The market a platform's poll hands to process_market_update.
TaskKey(t) == IF t = "polymarket" THEN "polymarket:a" ELSE "kalshi:b"

\* The first await of a task's loop body: periodic_state_save sleeps first
\* (main.py line 381), the pollers fetch first (lines 238, 268, 314).
FirstAwait(t) == IF t = "save" THEN "sleep" ELSE "io"

\* task.cancel() on every task of poll_tasks (main.py lines 449-450, 492-493);
\* cancelling a finished task does nothing.
CancelAll(tk) ==
    [t \in TaskNames |->
        IF tk[t].pc \in {"none", "done", "cancelled"} THEN tk[t]
        ELSE [tk[t] EXCEPT !.cancel = TRUE]]

\* A shutdown() that does not wait for the tasks.
AllTasksFinished_NoWait == TRUE

\* asyncio.gather(*self.poll_tasks, return_exceptions=True) (main.py line
\* 454) returns when every task has finished.
AllTasksFinished == \A t \in TaskNames : task[t].pc \in {"none", "done", "cancelled"}

\* run() enters initialize() (main.py lines 396, 41-52): the state is loaded;
\* initialize() then awaits the Telegram check (line 62).
RunInitialize ==
    /\ main_pc = "start"
    /\ load_result' = LoadSets(fs_dest, now)
    /\ known_market_ids' = load_result'.market_ids
    /\ known_trade_ids' = load_result'.trade_ids
    /\ main_pc' = "initializing"
    /\ op_log' = "load"
    /\ UNCHANGED <<now, last_probability, running, life, observed, last_call,
                   trade_alerts, shutdown_log>>
    /\ UNCHANGED <<state_file_dir, fs_dest, fs_tmp, save_pc, save_data, save_args,
                   save_fault>>
    /\ UNCHANGED lifeVars

\* initialize() returns and run() sets self.running = True (main.py line
\* 398), then awaits track_specific_event / connect_websockets.
RunSetRunning ==
    /\ main_pc = "initializing"
    /\ running' = TRUE
    /\ main_pc' = "setup"
    /\ UNCHANGED <<now, known_market_ids, last_probability, known_trade_ids, life,
                   observed, last_call, trade_alerts, shutdown_log>>
    /\ UNCHANGED persistVars
    /\ UNCHANGED lifeVars

\* run() creates the tasks (main.py lines 411-427) and awaits gather (436).
RunCreateTasks ==
    /\ main_pc = "setup"
    /\ task' = [t \in TaskNames |->
                   IF t \in enabled THEN [NoTask EXCEPT !.pc = "new"] ELSE NoTask]
    /\ main_pc' = "running"
    /\ UNCHANGED <<now, known_market_ids, last_probability, known_trade_ids, running,
                   life, observed, last_call, trade_alerts, shutdown_log>>
    /\ UNCHANGED persistVars
    /\ UNCHANGED <<enabled, signals, final_saves>>

\* _handle_signal (main.py lines 490-493), run by the event loop between two
\* steps of the coroutines.
HandleSignal ==
    /\ main_pc \in {"initializing", "setup", "running", "sd_gather", "sd_save"}
    /\ save_pc = "idle"
    /\ signals < MaxSignals
    /\ signals' = signals + 1
    /\ running' = FALSE
    /\ task' = CancelAll(task)
    /\ UNCHANGED <<now, known_market_ids, last_probability, known_trade_ids, main_pc,
                   life, observed, last_call, trade_alerts, shutdown_log>>
    /\ UNCHANGED persistVars
    /\ UNCHANGED <<enabled, final_saves>>

\* A created task runs for the first time: `while self.running` (main.py
\* lines 235, 260, 306, 379), then the first await of the body.
TaskStart(t) ==
    /\ task[t].pc = "new"
    /\ ~task[t].cancel
    /\ save_pc = "idle"
    /\ task' = [task EXCEPT ![t].pc = IF running THEN FirstAwait(t) ELSE "done"]
    /\ UNCHANGED <<now, monitorVars>>
    /\ UNCHANGED persistVars
    /\ UNCHANGED <<enabled, signals, final_saves>>

\* A poller's fetch returns and its markets go to process_market_update
\* (main.py lines 268-293, 314-339); then the task sleeps.
TaskPollDone(t) ==
    /\ t \in {"polymarket", "kalshi"}
    /\ task[t].pc = "io"
    /\ ~task[t].cancel
    /\ MarketUpdate({TaskKey(t)}, {500})
    /\ task' = [task EXCEPT ![t].pc = "sleep", ![t].failed = FALSE]
    /\ UNCHANGED <<enabled, signals, final_saves>>

\* The trade poller's fetch returns (main.py lines 237-248).
TaskTradesDone ==
    /\ task["trades"].pc = "io"
    /\ ~task["trades"].cancel
    /\ PollTrackedEventsTrades({<<"ev:1:10">>})
    /\ task' = [task EXCEPT !["trades"].pc = "sleep", !["trades"].failed = FALSE]
    /\ UNCHANGED <<enabled, signals, final_saves>>

\* A poller's fetch fails inside the client: after the retries the client's
\* own handler prints the error and returns no markets (polymarket_client.py
\* lines 111-113, kalshi_client.py lines 70-72), the poller has nothing to
\* process and sleeps (main.py lines 290-294, 336-340).
TaskFetchEmpty(t) ==
    /\ t \in {"polymarket", "kalshi"}
    /\ task[t].pc = "io"
    /\ ~task[t].cancel
    /\ save_pc = "idle"
    /\ task' = [task EXCEPT ![t].pc = "sleep", ![t].failed = FALSE]
    /\ UNCHANGED <<now, monitorVars>>
    /\ UNCHANGED persistVars
    /\ UNCHANGED <<enabled, signals, final_saves>>

\* A poller whose loop is left when its body raises.
TaskBodyRaised_Ends(t) == [task[t] EXCEPT !.pc = "done", !.failed = TRUE]

\* The try body of a poller raises an Exception, from the fetch or from the
\* processing: the handler reports it and sleeps (main.py lines 251-256,
\* 297-302, 343-348).
TaskBodyRaised(t) == [task[t] EXCEPT !.pc = "errsleep", !.failed = TRUE]

TaskIoFails(t) ==
    /\ task[t].pc = "io"
    /\ ~task[t].cancel
    /\ save_pc = "idle"
    /\ task' = [task EXCEPT ![t] = TaskBodyRaised(t)]
    /\ UNCHANGED <<now, monitorVars>>
    /\ UNCHANGED persistVars
    /\ UNCHANGED <<enabled, signals, final_saves>>

\* A poller's sleep is over: the loop tests self.running and starts the next
\* round.
TaskSleepDone(t) ==
    /\ t # "save"
    /\ task[t].pc \in {"sleep", "errsleep"}
    /\ ~task[t].cancel
    /\ save_pc = "idle"
    /\ task' = [task EXCEPT ![t].pc = IF running THEN FirstAwait(t) ELSE "done"]
    /\ UNCHANGED <<now, monitorVars>>
    /\ UNCHANGED persistVars
    /\ UNCHANGED <<enabled, signals, final_saves>>

\* periodic_state_save: the sleep is over, the state is saved (main.py line
\* 382) and the loop sleeps again.
TaskSaveDue ==
    /\ task["save"].pc = "sleep"
    /\ ~task["save"].cancel
    /\ SaveBegin(known_market_ids, known_trade_ids, now)
    /\ task' = [task EXCEPT !["save"].pc = IF running THEN "sleep" ELSE "done"]
    /\ UNCHANGED <<now, monitorVars>>
    /\ UNCHANGED <<enabled, signals, final_saves>>

\* The CancelledError of a pending cancel() reaches the task at its await:
\* inside the try it is caught and the loop is left (main.py lines 249-250,
\* 295-296, 341-342, 383-384); in the sleep of the `except Exception` handler,
\* or before the task ever ran, nothing catches it and the task ends
\* cancelled.
TaskCancelled(t) ==
    /\ task[t].cancel
    /\ task[t].pc \in {"new", "io", "sleep", "errsleep"}
    /\ save_pc = "idle"
    /\ task' = [task EXCEPT ![t] =
                   [@ EXCEPT !.pc = IF task[t].pc \in {"io", "sleep"}
                                    THEN "done" ELSE "cancelled",
                             !.cancel = FALSE]]
    /\ UNCHANGED <<now, monitorVars>>
    /\ UNCHANGED persistVars
    /\ UNCHANGED <<enabled, signals, final_saves>>

\* The gather of run() ends (main.py lines 434-440), with every task returned
\* or with the CancelledError of a cancelled task, and shutdown() begins
\* (lines 446-454): running is cleared, every task is cancelled, and
\* shutdown() awaits its own gather.
GatherEnds ==
    /\ main_pc = "running"
    /\ save_pc = "idle"
    /\ \/ \A t \in TaskNames : task[t].pc \in {"none", "done", "cancelled"}
       \/ \E t \in TaskNames : task[t].pc = "cancelled"
    /\ running' = FALSE
    /\ task' = CancelAll(task)
    /\ main_pc' = "sd_gather"
    /\ UNCHANGED <<now, known_market_ids, last_probability, known_trade_ids, life,
                   observed, last_call, trade_alerts, shutdown_log>>
    /\ UNCHANGED persistVars
    /\ UNCHANGED <<enabled, signals, final_saves>>

\* The gather of shutdown() returns and the final save is made (main.py
\* lines 453-457).
ShutdownSave ==
    /\ main_pc = "sd_gather"
    /\ AllTasksFinished
    /\ main_pc' = "sd_save"
    /\ SaveBegin(known_market_ids, known_trade_ids, now)
    /\ shutdown_log' = [graceful |-> TRUE, trade_ids |-> known_trade_ids]
    /\ final_saves' = final_saves + 1
    /\ UNCHANGED <<now, known_market_ids, last_probability, known_trade_ids, running,
                   life, observed, last_call, trade_alerts>>
    /\ UNCHANGED <<enabled, task, signals>>

\* A periodic save whose loop is left when the write fails.
SaveFailed_EndsTask(tk) == [tk EXCEPT !.pc = "done"]

\* A disk error inside the periodic save: save() handles the IOError itself
\* (persistence.py lines 83-84), so nothing reaches the handler of
\* periodic_state_save (main.py lines 385-388) and the task stays in its loop.
SaveFailed(tk) == tk

TaskSaveFails ==
    /\ main_pc = "running"
    /\ SaveIoError
    /\ task' = [task EXCEPT !["save"] = SaveFailed(task["save"])]
    /\ UNCHANGED <<now, monitorVars>>
    /\ UNCHANGED <<enabled, signals, final_saves>>

\* ------------------------------------------------------------ token bucket
VARIABLES
    rate,         \* TokenBucketRateLimiter.rate, in token units per tick
    capacity,     \* TokenBucketRateLimiter.capacity, in token units
    tokens,       \* TokenBucketRateLimiter.tokens, in token units
    last_update,  \* TokenBucketRateLimiter.last_update
    caller,       \* each caller of the limiter: where it is in wait()
    grant_log     \* time -> token units granted at that time

limiterVars == <<rate, capacity, tokens, last_update, caller, grant_log>>

\* Token amounts are counted in units: TokenScale units make one token.
TokenScale == 2
NumCallers == 2

Callers == 1..NumCallers

\* The rates a limiter is built with, in units per tick, and the numbers of
\* tokens a caller asks for.
Rates == {1, 2}
RequestSizes == {1, 2}

\* __init__ (rate_limiter.py line 21): capacity defaults to rate * 2.
DefaultCapacity(r, cap_arg) == IF cap_arg # None THEN cap_arg ELSE r * 2

\* A refill that is not capped at the capacity.
Refill_Uncapped(t) == tokens + (t - last_update) * rate

\* min(capacity, tokens + elapsed * rate) (rate_limiter.py lines 36-43).
Refill(t) == Min(capacity, tokens + (t - last_update) * rate)

RECURSIVE SumLog(_, _, _)
SumLog(log, a, b) == IF a > b THEN 0 ELSE log[a] + SumLog(log, a + 1, b)

\* acquire(n) (rate_limiter.py lines 35-49), the whole body under the lock:
\* refill, then deduct n token units when there are that many.
AcquireOk(n) == Refill(now) >= n

\* An acquire that stores the refill only when it grants.
Acquire_NoRefillOnFailure(n) ==
    /\ tokens' = IF AcquireOk(n) THEN Refill(now) - n ELSE tokens
    /\ last_update' = IF AcquireOk(n) THEN now ELSE last_update
    /\ grant_log' = IF AcquireOk(n)
                    THEN [grant_log EXCEPT ![now] = @ + n]
                    ELSE grant_log
    /\ UNCHANGED <<rate, capacity>>

Acquire(n) ==
    /\ tokens' = IF AcquireOk(n) THEN Refill(now) - n ELSE Refill(now)
    /\ last_update' = now
    /\ grant_log' = IF AcquireOk(n)
                    THEN [grant_log EXCEPT ![now] = @ + n]
                    ELSE grant_log
    /\ UNCHANGED <<rate, capacity>>

\* wait() (rate_limiter.py lines 59-60): the sleep after a failed acquire,
\* max(0.01, (n - self.tokens) / self.rate), in whole ticks: the sleep lasts
\* at least that long, and the 10 ms minimum is less than a tick.  self.tokens
\* is the value found when the caller runs again after the failed acquire.
WaitTime(n, toks) == Max(0, (n - toks) \div rate)

\* A caller: ret is what its last acquire() call returned.
Idle == [pc |-> "idle", n |-> 0, wake_at |-> 0, ret |-> FALSE]

\* A caller enters wait(n) (rate_limiter.py line 51).
WaitCall(c) ==
    \E k \in RequestSizes :
        /\ caller[c].pc = "idle"
        /\ caller' = [caller EXCEPT ![c] = [@ EXCEPT !.pc = "acquire", !.n = k * TokenScale]]
        /\ UNCHANGED <<rate, capacity, tokens, last_update, grant_log>>

\* One round of the loop of wait(): acquire, and on failure go to sleep.
WaitAcquire(c) ==
    /\ caller[c].pc = "acquire"
    /\ Acquire(caller[c].n)
    /\ caller' = [caller EXCEPT ![c] =
           IF AcquireOk(caller[c].n)
           THEN [pc |-> "idle", n |-> 0, wake_at |-> 0, ret |-> TRUE]
           ELSE [@ EXCEPT !.pc = "sleep", !.ret = FALSE,
                          !.wake_at = now + WaitTime(caller[c].n, tokens')]]

\* asyncio.sleep() returns once the time has passed.
WaitWake(c) ==
    /\ caller[c].pc = "sleep"
    /\ now >= caller[c].wake_at
    /\ caller' = [caller EXCEPT ![c] = [@ EXCEPT !.pc = "acquire", !.wake_at = 0]]
    /\ UNCHANGED <<rate, capacity, tokens, last_update, grant_log>>

\* A caller calls acquire(n) directly and takes the answer.
AcquireCall(c) ==
    \E k \in RequestSizes :
        /\ caller[c].pc = "idle"
        /\ Acquire(k * TokenScale)
        /\ caller' = [caller EXCEPT ![c] = [@ EXCEPT !.ret = AcquireOk(k * TokenScale)]]

\* ---------------------------------------------------- the limiter's lock
VARIABLES
    lock,     \* TokenBucketRateLimiter._lock: 0 when free, else the caller holding it
    access    \* the last read or write of tokens / last_update

lockVars == <<lock, access>>

NoAccess == [by |-> 0, at |-> "", locked |-> TRUE]

\* One coroutine runs at a time and keeps running until it awaits something
\* that is not ready: no other caller is between two awaits.
NoneRunning == \A d \in Callers : caller[d].pc \in {"idle", "acquire", "sleep"}

\* `async with self._lock:` (rate_limiter.py line 35): the free lock is taken
\* without suspending.
LockEnter(c) ==
    /\ NoneRunning
    /\ caller[c].pc = "acquire"
    /\ lock = 0
    /\ lock' = c
    /\ caller' = [caller EXCEPT ![c].pc = "locked"]
    /\ UNCHANGED <<rate, capacity, tokens, last_update, grant_log, access>>

\* The body of acquire() (rate_limiter.py lines 36-49): tokens and
\* last_update are read and written.
LockedAcquire(c) ==
    /\ caller[c].pc = "locked"
    /\ Acquire(caller[c].n)
    /\ access' = [by |-> c, at |-> "acquire", locked |-> lock = c]
    /\ caller' = [caller EXCEPT ![c].pc = "release", ![c].ret = AcquireOk(caller[c].n)]
    /\ UNCHANGED lock

\* The `async with` block is left: the lock is released and acquire()
\* returns to wait() (rate_limiter.py line 57), which returns on True.
LockRelease(c) ==
    /\ caller[c].pc = "release"
    /\ lock' = 0
    /\ caller' = [caller EXCEPT ![c] =
           IF caller[c].ret
           THEN [pc |-> "idle", n |-> 0, wake_at |-> 0, ret |-> TRUE]
           ELSE [@ EXCEPT !.pc = "compute"]]
    /\ UNCHANGED <<rate, capacity, tokens, last_update, grant_log, access>>

\* wait() after a failed acquire (rate_limiter.py lines 59-60): self.tokens is
\* read for the wait time, then the caller sleeps.
WaitCompute(c) ==
    /\ caller[c].pc = "compute"
    /\ access' = [by |-> c, at |-> "wait", locked |-> lock = c]
    /\ caller' = [caller EXCEPT ![c].pc = "sleep",
                                ![c].wake_at = now + WaitTime(caller[c].n, tokens)]
    /\ UNCHANGED <<rate, capacity, tokens, last_update, grant_log, lock>>

\* Time goes on without end: up to MaxTime the clock counts; from there on
\* the origin of the time axis moves forward by one tick instead, so every
\* stored time moves back by one.  A time that would fall before the origin
\* stays at it: the refill of MaxTime ticks already fills the bucket.
ClockAdvance ==
    IF now < MaxTime
    THEN /\ now' = now + 1
         /\ UNCHANGED limiterVars
    ELSE /\ now' = now
         /\ last_update' = Max(0, last_update - 1)
         /\ caller' = [c \in Callers |->
                           [caller[c] EXCEPT !.wake_at = Max(0, @ - 1)]]
         /\ grant_log' = [t \in Times |->
                              IF t < MaxTime THEN grant_log[t + 1] ELSE 0]
         /\ UNCHANGED <<rate, capacity, tokens>>

\* ------------------------------------------- retry and rate-limited request
VARIABLES
    max_retries,     \* ExponentialBackoff.max_retries
    rq_pc,           \* where the RetryableRequest.__aenter__ call is
    attempt,         \* the loop variable of retry()
    delay,           \* the local `delay` of retry()
    last_exception,  \* the local `last_exception` of retry()
    exc_log,         \* the exception of each failed attempt, in order
    op_calls,        \* invocations of _do_request
    rq_tokens,       \* tokens the limiter granted to this call's waits
    requests_sent,   \* requests handed to the session
    responses,       \* responses received
    validations,     \* raise_for_status() calls
    open_resp,       \* responses opened and not yet released
    sleep_log,       \* the delays retry() slept, in order
    rq_wake,         \* when the sleep inside wait() ends
    outcome          \* what __aenter__ returned or raised

retryVars == <<max_retries, rq_pc, attempt, delay, last_exception, exc_log,
               op_calls, rq_tokens, requests_sent, responses, validations,
               open_resp, sleep_log, rq_wake, outcome>>

MaxRetries == 4

\* ExponentialBackoff.__init__ defaults (rate_limiter.py lines 68-70).
InitialDelay == 1
MaxDelay == 60
Multiplier == 2

NoException == [status |-> 0, marker |-> FALSE, at |-> 0]
TypeError == [status |-> -1, marker |-> FALSE, at |-> 0]

\* What an attempt can fail with: an HTTP error status from raise_for_status()
\* (its text holds the status number) or an error of the session with no
\* status, whose text may hold a rate-limit marker.
Failures ==
    {[status |-> 429, marker |-> TRUE], [status |-> 500, marker |-> FALSE],
     [status |-> 0, marker |-> FALSE], [status |-> 0, marker |-> TRUE]}

\* is_rate_limit (rate_limiter.py lines 110-114).
IsRateLimit(e) == e.marker \/ e.status = 429

\* A delay that grows without the cap of max_delay.
NextDelay_Uncapped(d, e) ==
    IF IsRateLimit(e) THEN d * Multiplier * 2 ELSE d * Multiplier

\* The delay before the next attempt (rate_limiter.py lines 117-121).
NextDelay(d, e) ==
    IF IsRateLimit(e) THEN Min(MaxDelay, d * Multiplier * 2)
    ELSE Min(MaxDelay, d * Multiplier)

\* A retry loop that gives up one attempt early.
SleepsAfter_Early(a) == a < max_retries - 2

\* `if attempt < self.max_retries - 1` (rate_limiter.py line 116).
SleepsAfter(a) == a < max_retries - 1

\* `raise last_exception` (rate_limiter.py line 127); raising None is a TypeError.
RaisedException == IF last_exception = NoException THEN TypeError ELSE last_exception

\* __aenter__ calls backoff.retry(_do_request) (rate_limiter.py lines 100-103,
\* 152): the loop starts, or ends at once when range(max_retries) is empty.
RequestStart ==
    /\ rq_pc = "idle"
    /\ delay' = InitialDelay
    /\ last_exception' = NoException
    /\ attempt' = 0
    /\ IF max_retries > 0
       THEN /\ rq_pc' = "wait"
            /\ op_calls' = op_calls + 1
            /\ outcome' = outcome
       ELSE /\ rq_pc' = "raised"
            /\ op_calls' = op_calls
            /\ outcome' = [kind |-> "raised", exc |-> RaisedException']
    /\ UNCHANGED <<max_retries, exc_log, rq_tokens, requests_sent, responses,
                   validations, open_resp, sleep_log, rq_wake>>
    /\ UNCHANGED limiterVars

\* _do_request: await self.rate_limiter.wait() (rate_limiter.py line 143),
\* one round of the loop of wait().
RequestWait ==
    /\ rq_pc = "wait"
    /\ Acquire(TokenScale)
    /\ IF AcquireOk(TokenScale)
       THEN /\ rq_pc' = "request"
            /\ rq_tokens' = rq_tokens + 1
            /\ rq_wake' = rq_wake
       ELSE /\ rq_pc' = "wsleep"
            /\ rq_tokens' = rq_tokens
            /\ rq_wake' = now + WaitTime(TokenScale, tokens')
    /\ UNCHANGED <<max_retries, attempt, delay, last_exception, exc_log, op_calls,
                   requests_sent, responses, validations, open_resp, sleep_log,
                   outcome, caller>>

\* The sleep inside wait() is over (rate_limiter.py line 60).
RequestWaitWake ==
    /\ rq_pc = "wsleep"
    /\ now >= rq_wake
    /\ rq_pc' = "wait"
    /\ rq_wake' = 0
    /\ UNCHANGED <<max_retries, attempt, delay, last_exception, exc_log, op_calls,
                   rq_tokens, requests_sent, responses, validations, open_resp,
                   sleep_log, outcome>>
    /\ UNCHANGED limiterVars

\* A handler that sleeps after every failed attempt, the last one included,
\* before the loop is left.
Failed_SleepsThenRaises(e) ==
    LET exc == [status |-> e.status, marker |-> e.marker, at |-> attempt + 1]
    IN /\ last_exception' = exc
       /\ exc_log' = Append(exc_log, exc)
       /\ delay' = NextDelay(delay, e)
       /\ sleep_log' = Append(sleep_log, delay')
       /\ IF SleepsAfter(attempt)
          THEN /\ rq_pc' = "bsleep"
               /\ outcome' = outcome
          ELSE /\ rq_pc' = "raised"
               /\ outcome' = [kind |-> "raised", exc |-> RaisedException']

\* The attempt failed with e: the handler of retry() (rate_limiter.py lines
\* 106-125) keeps it, then sleeps the new delay or leaves the loop.
Failed(e) ==
    LET exc == [status |-> e.status, marker |-> e.marker, at |-> attempt + 1]
    IN /\ last_exception' = exc
       /\ exc_log' = Append(exc_log, exc)
       /\ IF SleepsAfter(attempt)
          THEN /\ delay' = NextDelay(delay, e)
               /\ sleep_log' = Append(sleep_log, delay')
               /\ rq_pc' = "bsleep"
               /\ outcome' = outcome
          ELSE /\ delay' = delay
               /\ sleep_log' = sleep_log
               /\ rq_pc' = "raised"
               /\ outcome' = [kind |-> "raised", exc |-> RaisedException']

\* session_method(...).__aenter__() (rate_limiter.py line 144) fails: no
\* response, the error goes to retry().
RequestError ==
    \E e \in {f \in Failures : f.status = 0} :
        /\ rq_pc = "request"
        /\ requests_sent' = requests_sent + 1
        /\ Failed(e)
        /\ UNCHANGED <<max_retries, attempt, op_calls, rq_tokens, responses,
                       validations, open_resp, rq_wake>>
        /\ UNCHANGED limiterVars

\* session_method(...).__aenter__() returns a response.
RequestResponse ==
    \E st \in {200, 429, 500} :
        /\ rq_pc = "request"
        /\ requests_sent' = requests_sent + 1
        /\ responses' = responses + 1
        /\ open_resp' = open_resp + 1
        /\ rq_pc' = "validate"
        /\ outcome' = [kind |-> "response", exc |-> [NoException EXCEPT !.status = st]]
        /\ UNCHANGED <<max_retries, attempt, delay, last_exception, exc_log,
                       op_calls, rq_tokens, validations, sleep_log, rq_wake>>
        /\ UNCHANGED limiterVars

\* resp.raise_for_status() passes (rate_limiter.py lines 146-147, 152-153):
\* retry() returns the response and __aenter__ hands it to the caller.
ValidateOk ==
    /\ rq_pc = "validate"
    /\ outcome.exc.status = 200
    /\ validations' = validations + 1
    /\ rq_pc' = "returned"
    /\ outcome' = [kind |-> "returned", exc |-> outcome.exc]
    /\ UNCHANGED <<max_retries, attempt, delay, last_exception, exc_log, op_calls,
                   rq_tokens, requests_sent, responses, open_resp, sleep_log, rq_wake>>
    /\ UNCHANGED limiterVars

\* A failed validation that leaves the response to the garbage collector.
ReleaseFailed_Skipped(n) == n

\* await resp.__aexit__(None, None, None) (rate_limiter.py line 149).
ReleaseFailed(n) == n - 1

\* resp.raise_for_status() raises (rate_limiter.py lines 148-150): the
\* response is released and the error goes to retry().
ValidateRaises ==
    /\ rq_pc = "validate"
    /\ outcome.exc.status # 200
    /\ validations' = validations + 1
    /\ open_resp' = ReleaseFailed(open_resp)
    /\ Failed([status |-> outcome.exc.status, marker |-> outcome.exc.status = 429])
    /\ UNCHANGED <<max_retries, attempt, op_calls, rq_tokens, requests_sent,
                   responses, rq_wake>>
    /\ UNCHANGED limiterVars

\* A next attempt that sends the request without waiting for a token.
BackoffWake_NoWait ==
    /\ rq_pc = "bsleep"
    /\ attempt' = attempt + 1
    /\ op_calls' = op_calls + 1
    /\ rq_pc' = "request"
    /\ UNCHANGED <<max_retries, delay, last_exception, exc_log, rq_tokens,
                   requests_sent, responses, validations, open_resp, sleep_log,
                   rq_wake, outcome>>
    /\ UNCHANGED limiterVars

\* asyncio.sleep(delay) is over (rate_limiter.py line 123): the loop goes to
\* its next attempt and calls _do_request again (lines 103-105, 142-143).
BackoffWake ==
    /\ rq_pc = "bsleep"
    /\ attempt' = attempt + 1
    /\ op_calls' = op_calls + 1
    /\ rq_pc' = "wait"
    /\ UNCHANGED <<max_retries, delay, last_exception, exc_log, rq_tokens,
                   requests_sent, responses, validations, open_resp, sleep_log,
                   rq_wake, outcome>>
    /\ UNCHANGED limiterVars

\* The caller's `async with` block ends and __aexit__ releases the response
\* that __aenter__ returned (rate_limiter.py lines 155-158).
ContextExit ==
    /\ rq_pc = "returned"
    /\ open_resp' = open_resp - 1
    /\ rq_pc' = "exited"
    /\ UNCHANGED <<max_retries, attempt, delay, last_exception, exc_log, op_calls,
                   rq_tokens, requests_sent, responses, validations, sleep_log,
                   rq_wake, outcome>>
    /\ UNCHANGED limiterVars

\* The task running the request is cancelled while it is suspended: the
\* CancelledError is no Exception, so retry() does not catch it.
RequestCancelled ==
    /\ rq_pc \in {"wsleep", "request", "bsleep"}
    /\ requests_sent' = IF rq_pc = "request" THEN requests_sent + 1 ELSE requests_sent
    /\ rq_pc' = "cancelled"
    /\ outcome' = [kind |-> "cancelled", exc |-> NoException]
    /\ UNCHANGED <<max_retries, attempt, delay, last_exception, exc_log, op_calls,
                   rq_tokens, responses, validations, open_resp, sleep_log, rq_wake>>
    /\ UNCHANGED limiterVars

\* ---------------------------------------------------- spike detector store
VARIABLES
    retention_hours,  \* SpikeDetector.retention_hours
    df,               \* SpikeDetector.df: the rows, oldest insertion first
    prev_df,          \* df before the last update()
    last_row,         \* the row the last update() appended
    update_time       \* the wall clock at the last update()

storeVars == <<retention_hours, df, prev_df, last_row, update_time>>

MaxRows == 2

StoreProbs == {500}
StoreVolumes == {None}

NoRow == [market_id |-> "", timestamp |-> 0, probability |-> 0, volume |-> 0]

\* __init__ (spike_detection.py line 34): retention_hours or the configured
\* default; a 0 argument counts as not given.
RetentionHours(arg) == IF arg = None \/ arg = 0 THEN DATA_RETENTION_HOURS ELSE arg

\* new_row (spike_detection.py lines 46-55): a missing volume is stored as 0.
NewRow(key, ts, prob, vol) ==
    [market_id |-> key, timestamp |-> ts, probability |-> prob,
     volume |-> IF vol = None THEN 0 ELSE vol]

\* A cutoff taken from the newest stored point instead of the wall clock.
CutoffTime_FromNewest(rows, t) ==
    LET newest == CHOOSE x \in {rows[i].timestamp : i \in DOMAIN rows} :
                      \A i \in DOMAIN rows : rows[i].timestamp <= x
    IN newest - retention_hours

\* cutoff_time (spike_detection.py line 70), at wall-clock time t.
CutoffTime(rows, t) == t - retention_hours

\* _cleanup_old_data() (spike_detection.py lines 65-71) at wall-clock time t.
CleanupOldData(rows, t) ==
    IF rows = <<>> THEN rows
    ELSE LET Keep(r) == r.timestamp >= CutoffTime(rows, t) IN SelectSeq(rows, Keep)

\* update(market) (spike_detection.py lines 40-63) for one observation:
\* append, then clean up.
UpdateRow(key, ts, prob, vol) ==
    /\ Len(df) <= MaxRows
    /\ df' = CleanupOldData(Append(df, NewRow(key, ts, prob, vol)), now)
    /\ prev_df' = df
    /\ last_row' = NewRow(key, ts, prob, vol)
    /\ update_time' = now
    /\ UNCHANGED retention_hours

\* update(market) for any market of the store's specification.
Update ==
    \E key \in MarketKeys, ts \in Times, prob \in StoreProbs, vol \in StoreVolumes :
        UpdateRow(key, ts, prob, vol)

\* ------------------------------------------------------- anomaly detection
VARIABLES
    spike_window_minutes,  \* SpikeDetector.spike_window_minutes, in ticks
    det                    \* the detect_anomalies() call in progress: its
                           \* market and what the two checks returned

detectVars == <<spike_window_minutes, det>>

\* In the detector's specifications one tick of the timestamps is 1/TicksPerHour
\* of an hour.
TicksPerHour == 2

\* The thresholds the detector is constructed with (z_threshold,
\* spike_percentage, volume_surge_multiplier).
ZThreshold == 2
SpikePercentage == 10
VolumeSurgeMultiplier == 3

\* Windows shorter and longer than the one-hour baseline window.
SpikeWindows == {1, TicksPerHour + 1}

\* Probabilities in thousandths: none, and two that are 10.29 percent (upward)
\* and 9.33 percent (downward) apart.
DetectProbs == {0, 350, 386}
DetectVolumes == {None, 0, 50, 150}
DetectTimes == {MaxTime - 1, MaxTime}

\* The market whose history is examined, and a second one.
Examined == CHOOSE k \in MarketKeys : TRUE

NoEvent == [key |-> "", ts |-> 0, prob |-> 0, vol |-> None]
NoSignal == [method |-> "none", baseline |-> {}, oldest |-> 0]
DivisionByZero == [method |-> "ZeroDivisionError", baseline |-> {}, oldest |-> 0]
NoSurge == [signal |-> FALSE, baseline |-> {}, multiplier |-> [num |-> 0, den |-> 1]]
NoDetection == [called |-> FALSE, market |-> NoEvent, spike |-> NoSignal, surge |-> NoSurge]

RECURSIVE SumOver(_, _)
SumOver(I, f) ==
    IF I = {} THEN 0
    ELSE LET i == CHOOSE j \in I : TRUE IN f[i] + SumOver(I \ {i}, f)

\* market_data (spike_detection.py lines 85-86, 183-184): the rows of the
\* market, as indices into the store.
MarketData(rows, m) == {i \in DOMAIN rows : rows[i].market_id = m.key}

\* A baseline window that is closed at the new point's timestamp.
HistoricalData_Inclusive(rows, m) ==
    {i \in MarketData(rows, m) :
        rows[i].timestamp >= m.ts - TicksPerHour /\ rows[i].timestamp <= m.ts}

\* historical_data (spike_detection.py lines 98-104).
HistoricalData(rows, m) ==
    {i \in MarketData(rows, m) :
        rows[i].timestamp >= m.ts - TicksPerHour /\ rows[i].timestamp < m.ts}

\* recent_data (spike_detection.py lines 146-152).
RecentData(rows, m) ==
    {i \in MarketData(rows, m) :
        rows[i].timestamp >= m.ts - spike_window_minutes /\ rows[i].timestamp < m.ts}

\* recent_data.iloc[0] after sort_values("timestamp") (spike_detection.py
\* lines 92, 155): a row of the least timestamp; the sort is not stable, so
\* among rows of equal timestamp any one can come first. 0 when there is none.
OldestChoices(rows, m) ==
    LET I == RecentData(rows, m)
    IN IF I = {} THEN {0}
       ELSE {i \in I : \A j \in I : rows[i].timestamp <= rows[j].timestamp}

\* n * mean and n * n * (n - 1) * variance of the probabilities of the rows I
\* (spike_detection.py lines 110-111): the sum, and the sum of the squared
\* deviations from the mean, free of fractions.
ProbSum(rows, I) == SumOver(I, [i \in I |-> rows[i].probability])
DeviationSquares(rows, I) ==
    LET n == Cardinality(I)
        S == ProbSum(rows, I)
    IN SumOver(I, [i \in I |-> (n * rows[i].probability - S) * (n * rows[i].probability - S)])

\* The mean of n equal doubles p, computed as sum / n (spike_detection.py line
\* 110), is not p: for 0.35 and for 0.386 the sum of three, six or seven of
\* them is rounded (0.35 + 0.35 + 0.35 = 1.0499999999999998), and so is the
\* mean; for two, four or five it is exact, and for 0.0 always.
RoundedMean(p, n) == p \in {350, 386} /\ n \in {3, 6, 7}

\* The deviation of a baseline of equal probabilities is a rounding residue,
\* about 1e-16 and not 0: the mean is rounded, and std() (spike_detection.py
\* line 111) sums the squares of the differences from it.
StdIsResidue(rows, I) ==
    /\ DeviationSquares(rows, I) = 0
    /\ \E i \in I : RoundedMean(rows[i].probability, Cardinality(I))

\* `std_prob == 0` (spike_detection.py line 113), on the deviation as computed.
StdIsZero(rows, I) == DeviationSquares(rows, I) = 0 /\ ~StdIsResidue(rows, I)

\* abs(diff / base) * 100 >= spike_percentage, for base > 0
\* (spike_detection.py lines 116-117, 157-158).
PercentageFires(diff, base) == Abs(diff) * 100 >= SpikePercentage * base

\* A guard that lets a zero mean through to the division.
MeanPositive_Unchecked(S) == TRUE

\* `if mean_prob > 0` (spike_detection.py line 115), on n * mean.
MeanPositive(S) == S > 0

\* The no-variation branch (spike_detection.py lines 113-127): the percentage
\* change against the mean, and nothing else.
PercentageCheck(rows, m, I) ==
    LET n == Cardinality(I)
        S == ProbSum(rows, I)
    IN IF MeanPositive(S)
       THEN IF S = 0 THEN DivisionByZero
            ELSE IF PercentageFires(n * m.prob - S, S)
                 THEN [method |-> "percentage", baseline |-> I, oldest |-> 0]
                 ELSE NoSignal
       ELSE NoSignal

\* A z-score test that sees upward moves only.
ZScoreFires_UpOnly(rows, m, I) ==
    LET n == Cardinality(I)
        dev == n * m.prob - ProbSum(rows, I)
    IN IF StdIsResidue(rows, I) THEN dev > 0
       ELSE /\ dev >= 0
            /\ dev * dev * (n - 1) >= ZThreshold * ZThreshold * DeviationSquares(rows, I)

\* abs((current_prob - mean_prob) / std_prob) >= z_threshold
\* (spike_detection.py lines 130-133), both sides squared and cleared of
\* fractions: std * std = DeviationSquares / (n * n * (n - 1)).
\* Against a residue deviation the z-score of the baseline's own value is
\* sqrt((n - 1) / n) < 1 and that of any other probability is beyond 1e12.
ZScoreFires(rows, m, I) ==
    LET n == Cardinality(I)
        dev == n * m.prob - ProbSum(rows, I)
    IN IF StdIsResidue(rows, I) THEN dev # 0
       ELSE dev * dev * (n - 1) >= ZThreshold * ZThreshold * DeviationSquares(rows, I)

\* The check over the short window (spike_detection.py lines 146-167),
\* against the row `oldest`.
WindowCheck(rows, m, oldest) ==
    IF oldest # 0 /\ rows[oldest].probability > 0
          /\ PercentageFires(m.prob - rows[oldest].probability, rows[oldest].probability)
    THEN [method |-> "percentage_window", baseline |-> HistoricalData(rows, m),
          oldest |-> oldest]
    ELSE NoSignal

\* The two later checks with the window check made first.
ZScoreThenWindow_WindowFirst(rows, m, oldest) ==
    LET I == HistoricalData(rows, m)
        w == WindowCheck(rows, m, oldest)
    IN IF w.method # "none" THEN w
       ELSE IF ZScoreFires(rows, m, I)
            THEN [method |-> "z_score", baseline |-> I, oldest |-> 0]
            ELSE NoSignal

\* The z-score check, then the window check (spike_detection.py lines 129-169).
ZScoreThenWindow(rows, m, oldest) ==
    LET I == HistoricalData(rows, m)
    IN IF StdIsZero(rows, I) THEN DivisionByZero
       ELSE IF ZScoreFires(rows, m, I)
       THEN [method |-> "z_score", baseline |-> I, oldest |-> 0]
       ELSE WindowCheck(rows, m, oldest)

\* detect_spikes(market) (spike_detection.py lines 73-169).
DetectSpikes(rows, m, oldest) ==
    LET I == HistoricalData(rows, m)
    IN IF rows = <<>> THEN NoSignal
       ELSE IF Cardinality(MarketData(rows, m)) < 2 THEN NoSignal
       ELSE IF Cardinality(I) < 2 THEN NoSignal
       ELSE IF StdIsZero(rows, I) THEN PercentageCheck(rows, m, I)
       ELSE ZScoreThenWindow(rows, m, oldest)

\* historical_data of detect_volume_surge (spike_detection.py lines 196-203).
HistoricalVolumes(rows, m) == {i \in HistoricalData(rows, m) : rows[i].volume > 0}

\* detect_volume_surge(market) (spike_detection.py lines 171-219); the mean is
\* V / n, the realized multiplier current_volume * n / V.
DetectVolumeSurge(rows, m) ==
    LET I == HistoricalVolumes(rows, m)
        n == Cardinality(I)
        V == SumOver(I, [i \in I |-> rows[i].volume])
    IN IF rows = <<>> \/ m.vol = None THEN NoSurge
       ELSE IF Cardinality(MarketData(rows, m)) < 2 THEN NoSurge
       ELSE IF I = {} THEN NoSurge
       ELSE IF V > 0 /\ m.vol * n >= V * VolumeSurgeMultiplier
            THEN [signal |-> TRUE, baseline |-> I,
                  multiplier |-> [num |-> m.vol * n, den |-> V]]
            ELSE NoSurge

\* detect_anomalies(market) (spike_detection.py lines 221-242) for a market
\* drawn from the given keys, probabilities and volumes.
DetectAnomalies(keys, probs, vols) ==
    /\ ~det.called
    /\ \E key \in keys, ts \in DetectTimes, prob \in probs, vol \in vols :
          LET m == [key |-> key, ts |-> ts, prob |-> prob, vol |-> vol]
          IN \E oldest \in OldestChoices(df, m) :
                det' = [called |-> TRUE, market |-> m,
                        spike |-> DetectSpikes(df, m, oldest),
                        surge |-> DetectVolumeSurge(df, m)]
    /\ UNCHANGED <<spike_window_minutes, storeVars>>

\* The call returns its list to the caller.
DetectReturn ==
    /\ det.called
    /\ det' = NoDetection
    /\ UNCHANGED <<spike_window_minutes, storeVars>>

\* update(market) for the observations of the detector's specifications: the
\* examined market at any time with any of the given values, the other market
\* with one observation inside the baseline window.
Observe(probs, vols) ==
    /\ ~det.called
    /\ \/ \E ts \in Times, prob \in probs, vol \in vols :
             UpdateRow(Examined, ts, prob, vol)
       \/ \E key \in MarketKeys \ {Examined} :
             UpdateRow(key, MaxTime - 1, 500, 50)

\* ------------------------------------------------------------ market event
VARIABLES
    market   \* the MarketEvent constructed last: its argument and its field

eventVars == <<market>>

\* The probability arguments tried: every ProbStep thousandths, from
\* MaxOvershoot steps below 0 to MaxOvershoot steps above 1.
ProbStep == 10
MaxOvershoot == 5

RawProbs ==
    {ProbStep * k : k \in (0 - MaxOvershoot)..((ProbScale \div ProbStep) + MaxOvershoot)}

Sources == {"polymarket", "kalshi"}

NoMarket == [source |-> "", arg |-> 0, probability |-> 0]

\* A validation that clamps at the upper end only.
PostInit_UpperOnly(p) == Min(ProbScale, p)

\* __post_init__ (market_event.py lines 34-38).
PostInit(p) ==
    IF ~(0 <= p /\ p <= ProbScale) THEN Max(0, Min(ProbScale, p)) ELSE p

\* MarketEvent(source=..., probability=p, ...): the dataclass stores the
\* arguments, then runs __post_init__.
NewMarketEvent ==
    \E src \in Sources, p \in RawProbs :
        market' = [source |-> src, arg |-> p, probability |-> PostInit(p)]

\* ------------------------------------------------- trade id housekeeping
VARIABLES
    cleanup_log   \* the cleanup_known_trade_ids() calls made so far and the
                  \* count the last one returned (removed, main.py line 246)

cleanupVars == <<cleanup_log>>

MaxCleanups == 3

NoCleanup == [calls |-> 0, removed |-> 0]

\* return len(old_ids) (main.py line 194).
RemovedCount(known, t) == Cardinality(OldTradeIds(known, t))

\* One iteration of poll_tracked_events_trades (main.py lines 236-248) with
\* the value cleanup_known_trade_ids() hands back to it.
PollAndCleanup(batches) ==
    \E batch \in batches :
        /\ cleanup_log.calls < MaxCleanups
        /\ PollTrackedEventsTradesOf(batch)
        /\ cleanup_log' =
               [calls   |-> cleanup_log.calls + 1,
                removed |-> RemovedCount(
                    CheckTrades(known_trade_ids, trade_alerts, batch, now).known,
                    now)]

CleanupInit == cleanup_log = NoCleanup

\* ------------------------------------------------------------- poll cycles
VARIABLES
    loop_owner,   \* the coroutine the event loop is running, "" at an await
    cyc           \* each feed of process_market_update: where its coroutine
                  \* is, the markets of its cycle and what it has read

cycleVars == <<loop_owner, cyc>>

MaxMarkets == 2

\* The callers of process_market_update: the two pollers (main.py lines
\* 290-291, 336-337) and the WebSocket handler (lines 350-352).
Feeds == {"poll_polymarket", "websocket_polymarket", "poll_kalshi"}

FeedKey(f) == IF f = "poll_kalshi" THEN "kalshi:b" ELSE "polymarket:a"

CycleProbs == {500, 510}

\* What a fetch can return: the feed's markets in the order of the response.
FetchLists == UNION {[1..n -> CycleProbs] : n \in 0..MaxMarkets}

Awaiting == [pc |-> "await_fetch", markets |-> <<>>, idx |-> 0, prev |-> None]

CycleInit ==
    /\ loop_owner = ""
    /\ cyc = [f \in Feeds |-> Awaiting]

\* A comparison that gives the loop back between the read and the write.
AfterRead_Yields(f) == ""

\* process_market_update between the read of last_probability (main.py line
\* 93) and its update (line 124): no await, notify_spike only schedules a
\* task (notifier.py lines 29-35), so the coroutine keeps the event loop.
AfterRead(f) == f

\* The awaited fetch of a feed returns (main.py lines 268, 314) and the `for`
\* loop starts with the first market.
CycleFetchOf(f, lists) ==
    /\ main_pc = "running"
    /\ save_pc = "idle"
    /\ loop_owner = ""
    /\ cyc[f].pc = "await_fetch"
    /\ \E ms \in lists :
          /\ f = "websocket_polymarket" => Len(ms) = 1
          /\ cyc' = [cyc EXCEPT ![f] =
                        IF ms = <<>> THEN [Awaiting EXCEPT !.pc = "await_sleep"]
                        ELSE [pc |-> "read", markets |-> ms, idx |-> 1, prev |-> None]]
          /\ loop_owner' = IF ms = <<>> THEN "" ELSE f
    /\ UNCHANGED <<now, monitorVars, persistVars>>

CycleFetch(f) == CycleFetchOf(f, FetchLists)

\* The state of a feed after the market at idx is done: the next market of
\* the list, or the sleep that ends the cycle (main.py lines 294, 340).
NextMarket(c) ==
    IF c.idx < Len(c.markets)
    THEN [c EXCEPT !.pc = "read", !.idx = c.idx + 1, !.prev = None]
    ELSE [Awaiting EXCEPT !.pc = "await_sleep"]

\* process_market_update up to the read of the stored probability (main.py
\* lines 83-94); a market seen for the first time is tracked and stored at
\* once (lines 86-90).
CycleRead(f) ==
    LET key == FeedKey(f)
        prob == cyc[f].markets[cyc[f].idx]
    IN /\ cyc[f].pc = "read"
       /\ loop_owner = f
       /\ IF key \notin known_market_ids
          THEN /\ ProcessMarketUpdate(key, prob)
               /\ cyc' = [cyc EXCEPT ![f] = NextMarket(cyc[f])]
               /\ loop_owner' = IF NextMarket(cyc[f]).pc = "read" THEN f ELSE ""
          ELSE /\ cyc' = [cyc EXCEPT ![f].pc = "compare",
                                     ![f].prev = PrevProbability(key)]
               /\ loop_owner' = AfterRead(f)
               /\ UNCHANGED <<known_market_ids, last_probability, last_call, observed>>
       /\ UNCHANGED <<now, known_trade_ids, running, main_pc, life, trade_alerts,
                      shutdown_log>>
       /\ UNCHANGED persistVars

\* The rest of process_market_update (main.py lines 96-124): the change test
\* against the probability that was read, the signal, the stored update.
CycleWrite(f) ==
    LET key == FeedKey(f)
        prob == cyc[f].markets[cyc[f].idx]
        prev_prob == cyc[f].prev
        fires == prev_prob # None /\ ChangeFires(prev_prob, prob)
    IN /\ cyc[f].pc = "compare"
       /\ loop_owner \in {"", f}
       /\ last_probability' = StoreProbability(key, prob)
       /\ last_call' =
              [key |-> key, prob |-> prob, first |-> key \notin observed,
               was_known |-> TRUE, prev |-> prev_prob, emitted |-> fires,
               change_pp |-> IF fires THEN SpikePayload(prev_prob, prob).change_pp ELSE 0,
               direction |-> IF fires THEN SpikePayload(prev_prob, prob).direction ELSE "",
               direction_prob |->
                   IF fires THEN SpikePayload(prev_prob, prob).direction_prob ELSE 0]
       /\ observed' = observed \cup {key}
       /\ cyc' = [cyc EXCEPT ![f] = NextMarket(cyc[f])]
       /\ loop_owner' = IF NextMarket(cyc[f]).pc = "read" THEN f ELSE ""
       /\ UNCHANGED <<now, known_market_ids, known_trade_ids, running, main_pc, life,
                      trade_alerts, shutdown_log>>
       /\ UNCHANGED persistVars

\* The sleep between two cycles is over (main.py lines 294, 340); for the
\* WebSocket handler, the next message arrives.
CycleSleepDone(f) ==
    /\ cyc[f].pc = "await_sleep"
    /\ loop_owner = ""
    /\ save_pc = "idle"
    /\ cyc' = [cyc EXCEPT ![f] = Awaiting]
    /\ UNCHANGED <<now, monitorVars, persistVars, loop_owner>>

\* The trade tracking task gets the loop for one iteration (main.py lines
\* 236-248).
CycleTrades ==
    /\ loop_owner = ""
    /\ PollTrackedEventsTrades({<<"ev:1:10">>})
    /\ UNCHANGED cycleVars

\* The periodic save gets the loop and reads the tracker's sets (main.py
\* line 382).
CycleSave ==
    /\ loop_owner = ""
    /\ PeriodicStateSave
    /\ UNCHANGED cycleVars

\* --------------------------------------------------------- telegram sender
VARIABLES
    last_send_time,  \* TelegramSender._last_send_time, in ticks
    sender,          \* each send_message() task: where it is, when it wakes
    sends            \* the times at which a message went out, in order

telegramVars == <<last_send_time, sender, sends>>

NumSenders == 3

Senders == 1..NumSenders

\* rate_limit (telegram_sender.py line 15, default 1.0 message per second).
TelegramRate == 1

\* min_interval = 1.0 / self.rate_limit (telegram_sender.py line 38).
MinInterval == TicksPerSec \div TelegramRate

\* _last_send_time = 0.0 (telegram_sender.py line 26) lies an epoch before
\* the start of the program, tick 0.
NeverSent == 0 - MinInterval

NewSender == [pc |-> "new", wake |-> 0]

TelegramInit ==
    /\ last_send_time = NeverSent
    /\ sender = [t \in Senders |-> NewSender]
    /\ sends = <<>>

\* A task created by _schedule_telegram (notifier.py lines 29-35) runs
\* send_message up to its first await (telegram_sender.py lines 69-75,
\* 36-41): with the interval elapsed it stamps the time and sends, otherwise
\* it sleeps for the rest of the interval as computed now.
SendStart(t) ==
    LET elapsed == now - last_send_time
    IN /\ sender[t].pc = "new"
       /\ IF elapsed < MinInterval
          THEN /\ sender' = [sender EXCEPT ![t] =
                                [pc |-> "sleep", wake |-> now + (MinInterval - elapsed)]]
               /\ UNCHANGED <<last_send_time, sends>>
          ELSE /\ sender' = [sender EXCEPT ![t].pc = "done"]
               /\ last_send_time' = now
               /\ sends' = Append(sends, now)
       /\ UNCHANGED now

\* asyncio.sleep(min_interval - elapsed) is over (telegram_sender.py lines
\* 40-41): the time is stamped and the message is sent (lines 77-93).
SendWake(t) ==
    /\ sender[t].pc = "sleep"
    /\ now >= sender[t].wake
    /\ sender' = [sender EXCEPT ![t] = [pc |-> "done", wake |-> 0]]
    /\ last_send_time' = now
    /\ sends' = Append(sends, now)
    /\ UNCHANGED now

TelegramTick ==
    /\ now < MaxTime
    /\ now' = now + 1
    /\ UNCHANGED telegramVars

\* --------------------------------------------------------------- pagination
VARIABLES
    poly_pages,    \* PolymarketClient.fetch_all_active_markets: its loop
    kalshi_pages,  \* KalshiClient.fetch_all_active_markets: its loop
    trade_pages    \* PolymarketClient.fetch_large_trades: its loop

pageVars == <<poly_pages, kalshi_pages, trade_pages>>

\* limit = 100 and the safety limit 10000 of the Polymarket loop
\* (polymarket_client.py lines 167, 189), range(10) of the Kalshi loop
\* (kalshi_client.py line 86), the page size cap 1000 and the safety limit
\* 100000 of the trade loop (polymarket_client.py lines 295, 356), scaled.
PageLimit == 2
OffsetCap == 4
KalshiPageCap == 3
MaxPageSize == 2
TradeOffsetCap == 4

\* The `limit` argument of fetch_large_trades.
TradeLimits == {0, 1, MaxPageSize + 1}

Cursors == {"", "c1", "c2"}

PagesInit ==
    /\ poly_pages = [pc |-> "loop", offset |-> 0, requests |-> 0]
    /\ kalshi_pages = [pc |-> "loop", cursor |-> "", requests |-> 0]
    /\ trade_pages = [pc |-> "idle", limit |-> 0, offset |-> 0, found |-> 0,
                      requests |-> 0]

\* A loop without the safety limit.
OffsetCapReached_Never(offset, cap) == FALSE

\* `if offset > 10000: break` (polymarket_client.py lines 189-190) and
\* `if offset > 100000: break` (lines 356-357).
OffsetCapReached(offset, cap) == offset > cap

\* One round of the loop of fetch_all_active_markets (polymarket_client.py
\* lines 170-190) for a page that brought n markets.
PolyPage(n) ==
    /\ poly_pages.pc = "loop"
    /\ poly_pages' =
           [pc |-> IF n = 0 \/ n < PageLimit
                      \/ OffsetCapReached(poly_pages.offset + PageLimit, OffsetCap)
                   THEN "done" ELSE "loop",
            offset |-> IF n = 0 \/ n < PageLimit THEN poly_pages.offset
                       ELSE poly_pages.offset + PageLimit,
            requests |-> poly_pages.requests + 1]
    /\ UNCHANGED <<kalshi_pages, trade_pages>>

\* One round of the loop of fetch_all_active_markets (kalshi_client.py lines
\* 86-107) for a page that brought n events and the cursor next_cursor; the
\* round of the last page number ends the loop.
KalshiPage(n, next_cursor) ==
    /\ kalshi_pages.pc = "loop"
    /\ kalshi_pages' =
           [pc |-> IF n = 0 \/ next_cursor = "" \/ n < PageLimit
                      \/ kalshi_pages.requests + 1 = KalshiPageCap
                   THEN "done" ELSE "loop",
            cursor |-> IF n = 0 \/ next_cursor = "" \/ n < PageLimit
                       THEN kalshi_pages.cursor ELSE next_cursor,
            requests |-> kalshi_pages.requests + 1]
    /\ UNCHANGED <<poly_pages, trade_pages>>

\* page_size = min(limit, 1000) (polymarket_client.py line 295).
PageSize(limit) == Min(limit, MaxPageSize)

\* fetch_large_trades(event_id, min_usd, limit) is called (polymarket_client.py
\* lines 293-295).
FetchLargeTrades(limit) ==
    /\ trade_pages.pc = "idle"
    /\ trade_pages' = [trade_pages EXCEPT !.pc = "loop", !.limit = limit]
    /\ UNCHANGED <<poly_pages, kalshi_pages>>

\* `while len(all_trades) < limit` (polymarket_client.py line 297) is false
\* on entry or after a round: the loop is left without a request.
TradesLoopEnds ==
    /\ trade_pages.pc = "loop"
    /\ ~(trade_pages.found < trade_pages.limit)
    /\ trade_pages' = [trade_pages EXCEPT !.pc = "done"]
    /\ UNCHANGED <<poly_pages, kalshi_pages>>

\* One round of the loop of fetch_large_trades (polymarket_client.py lines
\* 297-357) for a page of n trades, k of them large.
TradesPage(n, k) ==
    LET size == PageSize(trade_pages.limit)
    IN /\ trade_pages.pc = "loop"
       /\ trade_pages.found < trade_pages.limit
       /\ n <= size
       /\ k <= n
       /\ trade_pages' =
              [trade_pages EXCEPT
                  !.pc = IF n = 0 \/ n < size
                            \/ OffsetCapReached(trade_pages.offset + size, TradeOffsetCap)
                         THEN "done" ELSE "loop",
                  !.found = @ + k,
                  !.offset = IF n = 0 \/ n < size THEN @ ELSE @ + size,
                  !.requests = @ + 1]
       /\ UNCHANGED <<poly_pages, kalshi_pages>>

serviceVars == <<cleanupVars, cycleVars, telegramVars, pageVars>>

ServiceInit == CleanupInit /\ CycleInit /\ TelegramInit /\ PagesInit

\* ---------------------------------------------------------- specifications
vars == <<now, persistVars, monitorVars, lifeVars, limiterVars, retryVars, storeVars,
          eventVars, lockVars, detectVars, serviceVars>>

PersistInit ==
    /\ state_file_dir \in {"", "dir"}
    /\ fs_dest = NoFile
    /\ fs_tmp = NoFile
    /\ save_pc = "idle"
    /\ save_data = NoJson
    /\ save_args = [market_ids |-> {}, trade_ids |-> <<>>, dest_before |-> NoFile]
    /\ save_fault = FALSE
    /\ op_log = "none"
    /\ load_result = EmptyState

MonitorInit ==
    /\ life = 1
    /\ FreshMonitor
    /\ shutdown_log = NoShutdown

LimiterInit ==
    /\ rate \in Rates
    /\ capacity = DefaultCapacity(rate, None)
    /\ tokens = capacity
    /\ last_update = now
    /\ caller = [c \in Callers |-> Idle]
    /\ grant_log = [t \in Times |-> 0]

RetryInit ==
    /\ max_retries \in 0..MaxRetries
    /\ rq_pc = "idle"
    /\ attempt = 0
    /\ delay = InitialDelay
    /\ last_exception = NoException
    /\ exc_log = <<>>
    /\ op_calls = 0
    /\ rq_tokens = 0
    /\ requests_sent = 0
    /\ responses = 0
    /\ validations = 0
    /\ open_resp = 0
    /\ sleep_log = <<>>
    /\ rq_wake = 0
    /\ outcome = [kind |-> "none", exc |-> NoException]

EventInit == market = NoMarket

LockInit ==
    /\ lock = 0
    /\ access = NoAccess

DetectInit ==
    /\ spike_window_minutes \in SpikeWindows
    /\ det = NoDetection

DetectIdle == DetectInit /\ spike_window_minutes = 1

StoreInit ==
    /\ retention_hours \in {RetentionHours(arg) : arg \in {None, 0, 1}}
    /\ df = <<>>
    /\ prev_df = <<>>
    /\ last_row = NoRow
    /\ update_time = 0

LifeInit ==
    /\ enabled \in {{"save"} \cup e : e \in SUBSET {"polymarket", "kalshi", "trades"}}
    /\ task = [t \in TaskNames |-> NoTask]
    /\ signals = 0
    /\ final_saves = 0

\* The parts a specification does not exercise stay as constructed.
LifeIdle == LifeInit /\ enabled = TaskNames
PersistIdle == PersistInit /\ state_file_dir = "dir"
LimiterIdle == LimiterInit /\ rate = 1
RetryIdle == RetryInit /\ max_retries = 1
StoreIdle == StoreInit /\ retention_hours = DATA_RETENTION_HOURS

MonitorFrame == UNCHANGED <<lifeVars, limiterVars, retryVars, storeVars, eventVars,
                   lockVars, detectVars, serviceVars>>
SaveFrame == UNCHANGED <<now, monitorVars>>

\* The monitor's change tracker and its state file over restarts: the poll
\* cycles hand markets to process_market_update, the state is saved
\* periodically and at shutdown and loaded at the next start.
Init ==
    /\ now = 0
    /\ PersistInit /\ MonitorInit /\ LifeIdle /\ LimiterIdle /\ RetryIdle /\ StoreIdle
    /\ EventInit /\ LockInit /\ DetectIdle /\ ServiceInit

Next ==
    \/ Initialize /\ MonitorFrame
    \/ MarketUpdate(MarketKeys, Probs) /\ MonitorFrame
    \/ PeriodicStateSave /\ MonitorFrame
    \/ SaveMakedirs /\ SaveFrame /\ MonitorFrame
    \/ SaveOpen /\ SaveFrame /\ MonitorFrame
    \/ SaveWrite /\ SaveFrame /\ MonitorFrame
    \/ SaveReplace /\ SaveFrame /\ MonitorFrame
    \/ SaveIoError /\ SaveFrame /\ MonitorFrame
    \/ Shutdown /\ MonitorFrame
    \/ Exit /\ MonitorFrame
    \/ Kill /\ MonitorFrame
    \/ Restart /\ MonitorFrame

Spec == Init /\ [][Next]_vars

\* The monitor's trade dedup and its state file over restarts, with the
\* wall clock: trades are polled and pruned, the state is saved and loaded.
NextTrades ==
    \/ Initialize /\ MonitorFrame
    \/ PollTrackedEventsTrades(BatchesOf(TradeKeys)) /\ MonitorFrame
    \/ SaveMakedirs /\ SaveFrame /\ MonitorFrame
    \/ SaveOpen /\ SaveFrame /\ MonitorFrame
    \/ SaveWrite /\ SaveFrame /\ MonitorFrame
    \/ SaveReplace /\ SaveFrame /\ MonitorFrame
    \/ SaveIoError /\ SaveFrame /\ MonitorFrame
    \/ Shutdown /\ MonitorFrame
    \/ Exit /\ MonitorFrame
    \/ Kill /\ MonitorFrame
    \/ Restart /\ MonitorFrame
    \/ MonitorTick /\ MonitorFrame

SpecTrades == Init /\ [][NextTrades]_vars

\* StatePersistence alone: saves with any arguments, their I/O steps, I/O
\* failures, a crash inside save(), and loads at any point.
PersistFrame ==
    UNCHANGED <<now, monitorVars, lifeVars, limiterVars, retryVars, storeVars,
                eventVars, lockVars, detectVars, serviceVars>>

NextPersist ==
    \/ SaveCall({{}, MarketKeys}, {"ev:1:10"}, StampTimes, now) /\ PersistFrame
    \/ SaveMakedirs /\ PersistFrame
    \/ SaveOpen /\ PersistFrame
    \/ SaveWrite /\ PersistFrame
    \/ SaveReplace /\ PersistFrame
    \/ SaveIoError /\ PersistFrame
    \/ SaveCrash /\ PersistFrame
    \/ LoadCall(now) /\ PersistFrame

SpecPersist == Init /\ [][NextPersist]_vars

\* load_sets() on whatever file another writer left at the path, with the
\* clock.
NextLoad ==
    \/ ForeignWrite /\ PersistFrame
    \/ LoadCall(now) /\ PersistFrame
    \/ MonitorTick /\ MonitorFrame

SpecLoad == Init /\ [][NextLoad]_vars

\* One TokenBucketRateLimiter shared by concurrent callers of wait() and
\* acquire(), with the clock.
LimiterFrame ==
    UNCHANGED <<now, persistVars, monitorVars, lifeVars, retryVars, storeVars,
                eventVars, lockVars, detectVars, serviceVars>>

LimiterTick ==
    /\ Tick
    /\ UNCHANGED <<persistVars, monitorVars, lifeVars, limiterVars, retryVars,
                   storeVars, eventVars,
                   lockVars, detectVars, serviceVars>>

InitLimiter ==
    /\ now = 0
    /\ PersistIdle /\ MonitorInit /\ LifeIdle /\ LimiterInit /\ RetryIdle /\ StoreIdle
    /\ EventInit /\ LockInit /\ DetectIdle /\ ServiceInit

NextLimiter ==
    \/ \E c \in Callers : WaitCall(c) /\ LimiterFrame
    \/ \E c \in Callers : WaitAcquire(c) /\ LimiterFrame
    \/ \E c \in Callers : WaitWake(c) /\ LimiterFrame
    \/ \E c \in Callers : AcquireCall(c) /\ LimiterFrame
    \/ LimiterTick

SpecLimiter == InitLimiter /\ [][NextLimiter]_vars

\* The same limiter and callers on a wall clock that can be set back:
\* time.time() (rate_limiter.py lines 23, 36) is the system's wall clock, and
\* it returns a lower value than before when the system clock was set back
\* between two calls.
ClockSetBack ==
    /\ \E t \in Times : t < now /\ now' = t
    /\ UNCHANGED <<persistVars, monitorVars, lifeVars, limiterVars, retryVars,
                   storeVars, eventVars,
                   lockVars, detectVars, serviceVars>>

NextWallClock ==
    \/ NextLimiter
    \/ ClockSetBack

SpecWallClock == InitLimiter /\ [][NextWallClock]_vars

\* The callers of wait() on one limiter with its lock, step by step between
\* the awaits, with the clock.
LockFrame ==
    UNCHANGED <<now, persistVars, monitorVars, lifeVars, retryVars, storeVars,
                eventVars, detectVars, serviceVars>>

NextLock ==
    \/ \E c \in Callers : NoneRunning /\ WaitCall(c) /\ LimiterFrame
    \/ \E c \in Callers : LockEnter(c) /\ LockFrame
    \/ \E c \in Callers : LockedAcquire(c) /\ LockFrame
    \/ \E c \in Callers : LockRelease(c) /\ LockFrame
    \/ \E c \in Callers : WaitCompute(c) /\ LockFrame
    \/ \E c \in Callers : NoneRunning /\ WaitWake(c) /\ LimiterFrame
    \/ NoneRunning /\ LimiterTick

SpecLock == InitLimiter /\ [][NextLock]_vars

\* One caller of wait() alone on its limiter, with time going on without
\* end.  The event loop runs a coroutine that is ready, and a sleep ends when
\* its time has passed: the steps of wait() and the clock are weakly fair.
WaitStep == (WaitAcquire(1) \/ WaitWake(1)) /\ LimiterFrame

ClockStep ==
    /\ ClockAdvance
    /\ UNCHANGED <<persistVars, monitorVars, lifeVars, retryVars, storeVars,
                   eventVars, lockVars, detectVars, serviceVars>>

NextWait ==
    \/ WaitCall(1) /\ LimiterFrame
    \/ WaitAcquire(1) /\ LimiterFrame
    \/ WaitWake(1) /\ LimiterFrame
    \/ ClockStep

SpecWait ==
    InitLimiter /\ [][NextWait]_vars /\ WF_vars(WaitStep) /\ WF_vars(ClockStep)

\* One rate-limited request (RateLimitedSession.get(...).__aenter__) with its
\* retries, next to other callers of the same limiter, with the clock.
RetryFrame == UNCHANGED <<now, persistVars, monitorVars, lifeVars, storeVars, eventVars,
                   lockVars, detectVars, serviceVars>>

InitRetry ==
    /\ now = 0
    /\ PersistIdle /\ MonitorInit /\ LifeIdle /\ LimiterInit /\ RetryInit /\ StoreIdle
    /\ EventInit /\ LockInit /\ DetectIdle /\ ServiceInit

NextRetry ==
    \/ RequestStart /\ RetryFrame
    \/ RequestWait /\ RetryFrame
    \/ RequestWaitWake /\ RetryFrame
    \/ RequestError /\ RetryFrame
    \/ RequestResponse /\ RetryFrame
    \/ ValidateOk /\ RetryFrame
    \/ ValidateRaises /\ RetryFrame
    \/ BackoffWake /\ RetryFrame
    \/ RequestCancelled /\ RetryFrame
    \/ ContextExit /\ RetryFrame
    \/ AcquireCall(1) /\ UNCHANGED retryVars /\ RetryFrame
    \/ LimiterTick

SpecRetry == InitRetry /\ [][NextRetry]_vars

\* The SpikeDetector's store: updates with markets of any last_updated time,
\* with the clock.
StoreFrame ==
    UNCHANGED <<now, persistVars, monitorVars, lifeVars, limiterVars, retryVars,
                eventVars, lockVars, detectVars, serviceVars>>

StoreTick ==
    /\ Tick
    /\ UNCHANGED <<persistVars, monitorVars, lifeVars, limiterVars, retryVars,
                   storeVars, eventVars,
                   lockVars, detectVars, serviceVars>>

InitStore ==
    /\ now = 0
    /\ PersistIdle /\ MonitorInit /\ LifeIdle /\ LimiterIdle /\ RetryIdle /\ StoreInit
    /\ EventInit /\ LockInit /\ DetectIdle /\ ServiceInit

NextStore ==
    \/ Update /\ StoreFrame
    \/ StoreTick

SpecStore == InitStore /\ [][NextStore]_vars

\* The detector on a store filled by update(): the wall clock stands at the
\* latest timestamp and nothing is old enough to be dropped.
DetectFrame ==
    UNCHANGED <<now, persistVars, monitorVars, lifeVars, limiterVars, retryVars,
                eventVars, lockVars, serviceVars>>

InitSpikes ==
    /\ now = MaxTime
    /\ PersistIdle /\ MonitorInit /\ LifeIdle /\ LimiterIdle /\ RetryIdle
    /\ retention_hours = DATA_RETENTION_HOURS * TicksPerHour
    /\ df = <<>> /\ prev_df = <<>> /\ last_row = NoRow /\ update_time = 0
    /\ EventInit /\ LockInit /\ DetectInit /\ ServiceInit

NextSpikes ==
    \/ Observe(DetectProbs, {None}) /\ StoreFrame
    \/ DetectAnomalies({Examined}, DetectProbs, {50}) /\ DetectFrame
    \/ DetectReturn /\ DetectFrame

SpecSpikes == InitSpikes /\ [][NextSpikes]_vars

NextSurge ==
    \/ Observe({500}, DetectVolumes \ {0}) /\ StoreFrame
    \/ DetectAnomalies({Examined}, {500}, DetectVolumes) /\ DetectFrame
    \/ DetectReturn /\ DetectFrame

SpecSurge == InitSpikes /\ [][NextSurge]_vars

\* MarketEvent objects constructed from any probability argument.
EventFrame ==
    UNCHANGED <<now, persistVars, monitorVars, lifeVars, limiterVars, retryVars,
                storeVars, lockVars, detectVars, serviceVars>>

NextEvent == NewMarketEvent /\ EventFrame

SpecEvent == Init /\ [][NextEvent]_vars

\* One run of the program: run() with its tasks, the signal handler and
\* shutdown().
LifeFrame == UNCHANGED <<limiterVars, retryVars, storeVars, eventVars,
                   lockVars, detectVars, serviceVars>>

InitLife ==
    /\ now = 0
    /\ PersistIdle /\ MonitorInit /\ LifeInit /\ LimiterIdle /\ RetryIdle /\ StoreIdle
    /\ EventInit /\ LockInit /\ DetectIdle /\ ServiceInit

NextLife ==
    \/ RunInitialize /\ LifeFrame
    \/ RunSetRunning /\ LifeFrame
    \/ RunCreateTasks /\ LifeFrame
    \/ HandleSignal /\ LifeFrame
    \/ \E t \in TaskNames : TaskStart(t) /\ LifeFrame
    \/ \E t \in TaskNames : TaskPollDone(t) /\ LifeFrame
    \/ TaskTradesDone /\ LifeFrame
    \/ \E t \in TaskNames : TaskFetchEmpty(t) /\ LifeFrame
    \/ \E t \in TaskNames : TaskIoFails(t) /\ LifeFrame
    \/ \E t \in TaskNames : TaskSleepDone(t) /\ LifeFrame
    \/ TaskSaveDue /\ LifeFrame
    \/ \E t \in TaskNames : TaskCancelled(t) /\ LifeFrame
    \/ GatherEnds /\ LifeFrame
    \/ ShutdownSave /\ LifeFrame
    \/ SaveMakedirs /\ SaveFrame /\ UNCHANGED lifeVars /\ LifeFrame
    \/ SaveOpen /\ SaveFrame /\ UNCHANGED lifeVars /\ LifeFrame
    \/ SaveWrite /\ SaveFrame /\ UNCHANGED lifeVars /\ LifeFrame
    \/ SaveReplace /\ SaveFrame /\ UNCHANGED lifeVars /\ LifeFrame
    \/ Exit /\ UNCHANGED lifeVars /\ LifeFrame

SpecLife == InitLife /\ [][NextLife]_vars

\* One run with the periodic save and one poller, on a disk that can fail.
InitSaver == InitLife /\ enabled = {"save", "polymarket"}

NextSaver ==
    \/ RunInitialize /\ LifeFrame
    \/ RunSetRunning /\ LifeFrame
    \/ RunCreateTasks /\ LifeFrame
    \/ HandleSignal /\ LifeFrame
    \/ \E t \in TaskNames : TaskStart(t) /\ LifeFrame
    \/ \E t \in TaskNames : TaskPollDone(t) /\ LifeFrame
    \/ \E t \in TaskNames : TaskSleepDone(t) /\ LifeFrame
    \/ TaskSaveDue /\ LifeFrame
    \/ TaskSaveFails /\ LifeFrame
    \/ \E t \in TaskNames : TaskCancelled(t) /\ LifeFrame
    \/ GatherEnds /\ LifeFrame
    \/ ShutdownSave /\ LifeFrame
    \/ SaveMakedirs /\ SaveFrame /\ UNCHANGED lifeVars /\ LifeFrame
    \/ SaveOpen /\ SaveFrame /\ UNCHANGED lifeVars /\ LifeFrame
    \/ SaveWrite /\ SaveFrame /\ UNCHANGED lifeVars /\ LifeFrame
    \/ SaveReplace /\ SaveFrame /\ UNCHANGED lifeVars /\ LifeFrame
    \/ Exit /\ UNCHANGED lifeVars /\ LifeFrame

SpecSaver == InitSaver /\ [][NextSaver]_vars

\* One run with the periodic save and one poller under the event loop's
\* scheduling: every coroutine that can take its next step eventually takes
\* it; only the signal is left to the environment.
NextSignal ==
    \/ RunInitialize /\ LifeFrame
    \/ RunSetRunning /\ LifeFrame
    \/ RunCreateTasks /\ LifeFrame
    \/ HandleSignal /\ LifeFrame
    \/ \E t \in TaskNames : TaskStart(t) /\ LifeFrame
    \/ \E t \in TaskNames : TaskPollDone(t) /\ LifeFrame
    \/ \E t \in TaskNames : TaskSleepDone(t) /\ LifeFrame
    \/ TaskSaveDue /\ LifeFrame
    \/ \E t \in TaskNames : TaskCancelled(t) /\ LifeFrame
    \/ GatherEnds /\ LifeFrame
    \/ ShutdownSave /\ LifeFrame
    \/ SaveMakedirs /\ SaveFrame /\ UNCHANGED lifeVars /\ LifeFrame
    \/ SaveOpen /\ SaveFrame /\ UNCHANGED lifeVars /\ LifeFrame
    \/ SaveWrite /\ SaveFrame /\ UNCHANGED lifeVars /\ LifeFrame
    \/ SaveReplace /\ SaveFrame /\ UNCHANGED lifeVars /\ LifeFrame
    \/ Exit /\ UNCHANGED lifeVars /\ LifeFrame

FairSignal ==
    /\ WF_vars(RunInitialize /\ LifeFrame)
    /\ WF_vars(RunSetRunning /\ LifeFrame)
    /\ WF_vars(RunCreateTasks /\ LifeFrame)
    /\ \A t \in TaskNames : WF_vars(TaskStart(t) /\ LifeFrame)
    /\ \A t \in TaskNames : WF_vars(TaskPollDone(t) /\ LifeFrame)
    /\ \A t \in TaskNames : WF_vars(TaskSleepDone(t) /\ LifeFrame)
    /\ WF_vars(TaskSaveDue /\ LifeFrame)
    /\ \A t \in TaskNames : WF_vars(TaskCancelled(t) /\ LifeFrame)
    /\ WF_vars(GatherEnds /\ LifeFrame)
    /\ WF_vars(ShutdownSave /\ LifeFrame)
    /\ WF_vars(SaveMakedirs /\ SaveFrame /\ UNCHANGED lifeVars /\ LifeFrame)
    /\ WF_vars(SaveOpen /\ SaveFrame /\ UNCHANGED lifeVars /\ LifeFrame)
    /\ WF_vars(SaveWrite /\ SaveFrame /\ UNCHANGED lifeVars /\ LifeFrame)
    /\ WF_vars(SaveReplace /\ SaveFrame /\ UNCHANGED lifeVars /\ LifeFrame)
    /\ WF_vars(Exit /\ UNCHANGED lifeVars /\ LifeFrame)

SpecSignal == InitSaver /\ [][NextSignal]_vars /\ FairSignal

\* One lifetime of the trade poller alone: start-up load, polls and the clock.
NextDedup ==
    \/ Initialize /\ MonitorFrame
    \/ PollTrackedEventsTrades(BatchesOf(TradeKeys)) /\ MonitorFrame
    \/ MonitorTick /\ MonitorFrame

SpecDedup == Init /\ [][NextDedup]_vars

\* The trade polling loop with the wall clock: every iteration checks the
\* fetched trades and prunes the ids admitted before the retention horizon.
CleanupFrame ==
    UNCHANGED <<lifeVars, limiterVars, retryVars, storeVars, eventVars, lockVars,
                detectVars, cycleVars, telegramVars, pageVars>>

NextCleanup ==
    \/ Initialize /\ MonitorFrame
    \/ PollAndCleanup(BatchesOf(TradeKeys)) /\ CleanupFrame
    \/ MonitorTick /\ MonitorFrame

SpecCleanup == Init /\ [][NextCleanup]_vars

\* The feeds of process_market_update and the trade tracker on one event
\* loop: a coroutine runs from one await to the next.
CycleFrame ==
    UNCHANGED <<lifeVars, limiterVars, retryVars, storeVars, eventVars, lockVars,
                detectVars, cleanupVars, telegramVars, pageVars>>

NextCycle ==
    \/ Initialize /\ MonitorFrame
    \/ \E f \in Feeds : CycleFetch(f) /\ CycleFrame
    \/ \E f \in Feeds : CycleRead(f) /\ CycleFrame
    \/ \E f \in Feeds : CycleWrite(f) /\ CycleFrame
    \/ \E f \in Feeds : CycleSleepDone(f) /\ CycleFrame
    \/ CycleTrades /\ CycleFrame
    \/ CycleSave /\ CycleFrame
    \/ SaveMakedirs /\ SaveFrame /\ MonitorFrame
    \/ SaveOpen /\ SaveFrame /\ MonitorFrame
    \/ SaveWrite /\ SaveFrame /\ MonitorFrame
    \/ SaveReplace /\ SaveFrame /\ MonitorFrame

SpecCycle == Init /\ [][NextCycle]_vars

\* One poller whose cycles bring up to four observations of its market, in
\* steps of half the threshold.
DriftLists == UNION {[1..n -> Probs] : n \in 1..MaxMarkets + 2}

NextDrift ==
    \/ Initialize /\ MonitorFrame
    \/ CycleFetchOf("poll_polymarket", DriftLists) /\ CycleFrame
    \/ CycleRead("poll_polymarket") /\ CycleFrame
    \/ CycleWrite("poll_polymarket") /\ CycleFrame
    \/ CycleSleepDone("poll_polymarket") /\ CycleFrame

SpecDrift == Init /\ [][NextDrift]_vars

\* The Telegram sender with the send tasks of several alerts and the clock.
TelegramFrame ==
    UNCHANGED <<persistVars, monitorVars, lifeVars, limiterVars, retryVars, storeVars,
                eventVars, lockVars, detectVars, cleanupVars, cycleVars, pageVars>>

NextTelegram ==
    \/ \E t \in Senders : SendStart(t) /\ TelegramFrame
    \/ \E t \in Senders : SendWake(t) /\ TelegramFrame
    \/ TelegramTick /\ TelegramFrame

SpecTelegram == Init /\ [][NextTelegram]_vars

\* The three page loops against venues that may answer anything: full pages
\* for ever, a cursor that repeats, pages with no large trade.
PagesFrame ==
    UNCHANGED <<now, persistVars, monitorVars, lifeVars, limiterVars, retryVars,
                storeVars, eventVars, lockVars, detectVars, cleanupVars, cycleVars,
                telegramVars>>

NextPages ==
    \/ \E n \in 0..PageLimit + 1 : PolyPage(n) /\ PagesFrame
    \/ \E n \in 0..PageLimit, c \in Cursors : KalshiPage(n, c) /\ PagesFrame
    \/ \E lim \in TradeLimits : FetchLargeTrades(lim) /\ PagesFrame
    \/ TradesLoopEnds /\ PagesFrame
    \/ \E n \in 0..MaxPageSize, k \in 0..MaxPageSize : TradesPage(n, k) /\ PagesFrame

SpecPages == Init /\ [][NextPages]_vars

\* ------------------------------------------------------------------ claims

\* C1: the first process_market_update call for a market key in a process
\* lifetime emits no probability-change signal and only records the baseline
\* probability, both when the key was absent from known_market_ids and when
\* it was reloaded from the state file (known id, no stored last probability).
C1_FirstObservationSilent ==
    last_call.first =>
        /\ ~last_call.emitted
        /\ last_call.key \in known_market_ids
        /\ last_call.key \in DOMAIN last_probability
        /\ last_probability[last_call.key] = last_call.prob

\* A first call, in the second lifetime, for a key reloaded from the file.
C1_Witness ==
    /\ last_call.first
    /\ last_call.was_known
    /\ life = 2
    /\ last_call.key \in load_result.market_ids

\* C2: with any number of concurrent callers of acquire/wait on one limiter,
\* the token units granted in any interval never exceed capacity + rate x the
\* interval's length (at most capacity with zero elapsed time), and every
\* unit granted to a caller was taken out of the bucket, so that none is
\* granted twice: the units granted plus the units in the bucket never exceed
\* the initial capacity plus the refill.
C2_GrantsBounded ==
    /\ \A t1 \in Times : \A t2 \in Times :
          t1 <= t2 => SumLog(grant_log, t1, t2) <= capacity + rate * (t2 - t1)
    /\ tokens >= 0
    /\ tokens + SumLog(grant_log, 0, MaxTime) <= capacity + rate * last_update

\* A burst: the whole capacity granted at one instant, to two callers, and a
\* caller of wait() turned away and asleep.
C2_Witness ==
    /\ \E t \in Times : t > 0 /\ grant_log[t] = capacity
    /\ \E c \in Callers : caller[c].ret /\ caller[c].pc = "idle"
    /\ \E c \in Callers : ~caller[c].ret /\ caller[c].pc = "sleep"

\* C3: retry(op) invokes op at most max_retries times; when every attempt
\* fails it has invoked op exactly max_retries times and raises the exception
\* of the last attempt; it returns normally only when the last attempt made
\* did not fail.
C3_RetryBounded ==
    /\ op_calls <= max_retries
    /\ Len(exc_log) <= op_calls
    /\ rq_pc = "raised" =>
          /\ op_calls = max_retries
          /\ Len(exc_log) = max_retries
          /\ outcome.kind = "raised"
          /\ max_retries > 0 =>
                /\ outcome.exc = exc_log[max_retries]
                /\ outcome.exc.at = max_retries
    /\ rq_pc = "returned" =>
          /\ outcome.kind = "returned"
          /\ Len(exc_log) = op_calls - 1
    /\ (Len(exc_log) = max_retries /\ rq_pc # "idle") => rq_pc = "raised"

\* Three attempts that failed in different ways, the last one raised.
C3_Witness ==
    /\ rq_pc = "raised"
    /\ max_retries = 3
    /\ op_calls = 3
    /\ exc_log[1].status # exc_log[3].status
    /\ exc_log[2].status # exc_log[3].status
    /\ outcome.exc.status = exc_log[3].status

\* C4: at every step of save(), with a crash or a load at any point of the
\* write, the file at the destination path is absent, or the complete content
\* it had before the save, or the complete new content; no load ever reads a
\* partial document there.
C4_DestinationNeverPartial ==
    /\ fs_dest.exists => JsonComplete(fs_dest)
    /\ fs_dest \in {save_args.dest_before, FileOf(save_data, DocChunks)}
    /\ save_pc # "idle" => fs_dest = save_args.dest_before
    /\ ~load_result.warned

\* A load while a later save() is half-way through writing returned the
\* complete content of the save before it.
C4_Witness ==
    /\ save_pc = "write"
    /\ fs_tmp.exists
    /\ fs_tmp.written > 0
    /\ ~JsonComplete(fs_tmp)
    /\ fs_dest.exists
    /\ fs_dest.json # save_data
    /\ load_result.trade_ids # <<>>
    /\ load_result.market_ids = Range(fs_dest.json.known_market_ids)

\* C5: save(M, T) immediately followed by load_sets(), with no write between
\* and no I/O call failed by the environment, returns exactly (M, T).
C5_SaveLoadRoundTrip ==
    (op_log = "save_load" /\ ~save_fault)
    => /\ load_result.market_ids = save_args.market_ids
       /\ load_result.trade_ids = save_args.trade_ids

\* The same for a state file path with a directory part.
SaveLoadRoundTripWithDir ==
    state_file_dir # "" => C5_SaveLoadRoundTrip

\* C6: a trade id not in known_trade_ids is admitted and notified exactly
\* once; every later sighting of the same id, in the same batch or in any
\* later poll of the process, produces no notification.
C6_TradeNotifiedOnce ==
    \A tid \in TradeKeys : trade_alerts[tid].notified <= 1

\* C6 as amended: a trade id not in known_trade_ids is admitted with the
\* current time and notified exactly once; while the id is in known_trade_ids
\* every sighting of it is suppressed, and the id stays there, with its
\* admission time, for as long as that time is not older than the retention.
C6_SuppressedWhileKnown ==
    [][\A tid \in TradeKeys :
          /\ (tid \in DOMAIN known_trade_ids /\ life' = life)
                => trade_alerts'[tid].notified = trade_alerts[tid].notified
          /\ (/\ tid \notin DOMAIN known_trade_ids
              /\ life' = life
              /\ trade_alerts'[tid].notified # trade_alerts[tid].notified)
                => /\ trade_alerts'[tid].notified = trade_alerts[tid].notified + 1
                   /\ tid \in DOMAIN known_trade_ids'
                   /\ known_trade_ids'[tid] = now
          /\ (/\ tid \in DOMAIN known_trade_ids
              /\ life' = life
              /\ main_pc = "running"
              /\ known_trade_ids[tid] >= now' - DATA_RETENTION_HOURS)
                => /\ tid \in DOMAIN known_trade_ids'
                   /\ known_trade_ids'[tid] = known_trade_ids[tid]
      ]_vars

\* A trade notified once whose later sighting, after the clock moved on, was
\* suppressed.
C6_Witness ==
    \E tid \in TradeKeys :
        /\ trade_alerts[tid].notified = 1
        /\ trade_alerts[tid].suppressed
        /\ tid \in DOMAIN known_trade_ids
        /\ known_trade_ids[tid] < now

\* C7: after a graceful shutdown (shutdown() ran and called the final save,
\* and no I/O call failed in the environment), the next start-up load holds
\* every trade id known at the shutdown, with its admission time.
C7_DedupSurvivesRestart ==
    (/\ life > 1
     /\ main_pc = "running"
     /\ op_log = "load"
     /\ shutdown_log.graceful
     /\ ~save_fault)
    => load_result.trade_ids = shutdown_log.trade_ids

\* The same, for a state file path with a directory part.
DedupSurvivesRestartWithDir ==
    state_file_dir # "" => C7_DedupSurvivesRestart

C9_RetentionCutoff ==
    last_row # NoRow =>
        LET before == Append(prev_df, last_row)
            cutoff == update_time - retention_hours
        IN /\ \A i \in DOMAIN df : df[i].timestamp >= cutoff
           /\ \A i \in DOMAIN before :
                 before[i].timestamp >= cutoff => before[i] \in Range(df)
           /\ Range(df) \subseteq Range(before)
           /\ Len(df) <= Len(before)

\* An update that appended a point older than the wall clock and dropped a
\* stored point that a cutoff counted from the newest point would have kept.
C9_Witness ==
    /\ last_row # NoRow
    /\ last_row.timestamp < update_time
    /\ last_row \in Range(df)
    /\ \E i \in DOMAIN prev_df :
          /\ prev_df[i] \notin Range(df)
          /\ prev_df[i].timestamp >= last_row.timestamp - retention_hours
          /\ \A j \in DOMAIN prev_df : prev_df[j].timestamp <= last_row.timestamp

\* C10: in the rate-limited fetch path every request sent, the first and each
\* retry, was preceded by its own completed wait() that took one token, so
\* the requests sent never exceed the tokens the limiter granted to the call;
\* every response received is put to the status validation before anything
\* else happens, and only a response with a good status is returned.
C10_WaitRequestValidate ==
    /\ rq_tokens - requests_sent = (IF rq_pc = "request" THEN 1 ELSE 0)
    /\ rq_tokens \in {op_calls - 1, op_calls}
    /\ rq_pc \in {"request", "validate", "bsleep", "returned", "raised"}
          => rq_tokens = op_calls
    /\ rq_tokens * TokenScale <= SumLog(grant_log, 0, MaxTime)
    /\ responses - validations = (IF rq_pc = "validate" THEN 1 ELSE 0)
    /\ rq_pc = "returned" => outcome.exc.status = 200

\* A response returned by the third attempt, after a bad status and a
\* failed request: three waits, three requests, two validations.
C10_Witness ==
    /\ rq_pc = "returned"
    /\ op_calls = 3
    /\ rq_tokens = 3
    /\ requests_sent = 3
    /\ responses = 2
    /\ validations = 2

\* C11: after every process_market_update(market) call, whether or not a
\* signal was emitted, last_probability[key] is the probability of the
\* observation just processed.
C11_LastProbabilityStored ==
    last_call.key # "" =>
        /\ last_call.key \in DOMAIN last_probability
        /\ last_probability[last_call.key] = last_call.prob

\* A call that emitted a signal and one step later the stored probability
\* is the new one, not the one the change was measured from.
C11_Witness ==
    /\ last_call.emitted
    /\ last_call.prev # last_call.prob
    /\ last_probability[last_call.key] = last_call.prob

\* C12: for a market key with a stored last probability, a call emits a
\* probability-change signal if and only if |curr - last| x 100 is at least
\* the threshold; the signal carries direction YES and the probability curr
\* when curr > last, and direction NO and 1 - curr otherwise.
C12_SignalIffThreshold ==
    [][\A key \in MarketKeys :
          (/\ key \in DOMAIN last_probability
           /\ last_call' # last_call
           /\ last_call'.key = key)
          => LET last == last_probability[key]
                 curr == last_call'.prob
             IN /\ last_call'.emitted <=>
                       Abs(curr - last) * 100 >= PROBABILITY_CHANGE_THRESHOLD * ProbScale
                /\ (last_call'.emitted /\ curr > last) =>
                       /\ last_call'.direction = "YES"
                       /\ last_call'.direction_prob = curr
                /\ (last_call'.emitted /\ ~(curr > last)) =>
                       /\ last_call'.direction = "NO"
                       /\ last_call'.direction_prob = ProbScale - curr
      ]_vars

\* A fall of exactly the threshold: the signal says NO with 1 - curr.
C12_Witness ==
    /\ last_call.emitted
    /\ last_call.prev - last_call.prob = 10 * PROBABILITY_CHANGE_THRESHOLD
    /\ last_call.direction = "NO"
    /\ last_call.direction_prob = ProbScale - last_call.prob

\* C13: load_sets never raises: a missing file gives the empty state, and
\* so does any file content that cannot be used, a cut-short document and a
\* complete JSON document that is not an object of the expected shape alike.
C13_LoadNeverRaises ==
    /\ ~load_result.raised
    /\ (op_log = "foreign_load" /\ (~fs_dest.exists \/ ~JsonComplete(fs_dest)))
          => (load_result.market_ids = {} /\ load_result.trade_ids = <<>>)

\* C14: constructing a MarketEvent with any probability p gives a stored
\* probability in [0, 1]: 0 when p < 0, 1 when p > 1, p when 0 <= p <= 1.
C14_ProbabilityClamped ==
    market # NoMarket =>
        /\ 0 <= market.probability /\ market.probability <= ProbScale
        /\ market.arg < 0 => market.probability = 0
        /\ market.arg > ProbScale => market.probability = ProbScale
        /\ (0 <= market.arg /\ market.arg <= ProbScale) => market.probability = market.arg

\* An event built with a probability below 0, stored as 0.
C14_Witness ==
    /\ market.source = "kalshi"
    /\ market.arg = 0 - ProbStep * MaxOvershoot
    /\ market.probability = 0

\* C15: no operation blocks for ever: as time advances wait(n) returns in
\* the end, for every rate and capacity of the limiter and every n asked
\* for, so that the retry loop around it ends after at most max_retries
\* attempts.
C15_WaitReturns ==
    \A c \in Callers : (caller[c].pc = "acquire") ~> (caller[c].pc = "idle")

\* The same for a request the bucket can hold.
WaitReturnsWithinCapacity ==
    \A c \in Callers :
        (caller[c].pc = "acquire" /\ caller[c].n <= capacity) ~> (caller[c].pc = "idle")

\* C16: a venue poll task never ends because of a fetch or processing
\* failure: the failure is reported and the loop goes on to its next cycle;
\* the loop ends only on cancellation or when running is false.
C16_PollSurvivesFailure ==
    [][\A t \in {"polymarket", "kalshi"} :
          /\ (/\ task[t].pc \in {"io", "sleep", "errsleep"}
              /\ task'[t].pc \in {"done", "cancelled"})
                => (task[t].cancel \/ ~running)
          /\ (task'[t].failed /\ ~task[t].failed)
                => (task[t].pc = "io" /\ task'[t].pc = "errsleep")
          /\ (task[t].pc = "errsleep" /\ task'[t].pc # "errsleep" /\ ~task[t].cancel
              /\ running)
                => task'[t].pc = "io"
      ]_vars

\* Both venue pollers are fetching again, each after a failure it reported
\* and slept on, with the program still running.
C16_Witness ==
    /\ running
    /\ main_pc = "running"
    /\ \A t \in {"polymarket", "kalshi"} :
          /\ task[t].failed
          /\ task[t].pc = "io"
          /\ ~task[t].cancel

\* C17: every market record handled by process_market_update is first
\* appended to the time-series store, then evaluated by the anomaly detector
\* against the store, then evaluated by the change tracker: when the tracker
\* has taken the record, the store holds its point.
C17_StoredBeforeTracked ==
    last_call.key # "" =>
        \E i \in DOMAIN df :
            /\ df[i].market_id = last_call.key
            /\ df[i].probability = last_call.prob

\* C18: after any sequence and interleaving of acquire and wait calls with
\* non-negative token requests the limiter's token count is within
\* [0, capacity], and a capacity that was not given is 2 x rate.
C18_TokensWithinCapacity ==
    /\ 0 <= tokens
    /\ tokens <= capacity
    /\ capacity = 2 * rate

\* C19: an acquire(n) call that fails has no side effects on the limiter:
\* the stored token count and the last-refill timestamp are the same after
\* the call as before it.
C19_FailedAcquireNoEffect ==
    [][\A c \in Callers :
          (\/ caller[c].pc = "acquire" /\ caller'[c].pc = "sleep"
           \/ /\ caller[c].pc = "idle" /\ caller[c].ret
              /\ caller'[c].pc = "idle" /\ ~caller'[c].ret)
          => /\ tokens' = tokens
             /\ last_update' = last_update
      ]_vars

\* C19 as amended: an acquire(n) call that fails deducts nothing and grants
\* nothing; it stores the refilled count min(capacity, tokens + elapsed x
\* rate), which is below n, and sets the last-refill timestamp to the
\* current time.
C19_FailedAcquireStoresRefill ==
    [][\A c \in Callers :
          (\/ caller[c].pc = "acquire" /\ caller'[c].pc = "sleep"
           \/ /\ caller[c].pc = "idle" /\ caller[c].ret
              /\ caller'[c].pc = "idle" /\ ~caller'[c].ret)
          => /\ tokens' = Min(capacity, tokens + (now - last_update) * rate)
             /\ last_update' = now
             /\ grant_log' = grant_log
             /\ caller[c].pc = "acquire" => tokens' < caller[c].n
             /\ UNCHANGED <<rate, capacity>>
      ]_vars

\* A caller turned away and asleep after a failed acquire that found a
\* refill to store: nothing was granted at this time, the timestamp is the
\* current time and the bucket holds the refill since the last grant.
C19_Witness ==
    /\ now > 0
    /\ last_update = now
    /\ grant_log[now] = 0
    /\ tokens > 0
    /\ \E t \in Times : t < now /\ grant_log[t] > 0
    /\ \E c \in Callers : caller[c].pc = "sleep" /\ ~caller[c].ret /\ tokens < caller[c].n

\* C20: every read and every write of the limiter state (tokens, last-refill
\* timestamp) by acquire and by wait happens while the caller holds the
\* limiter's lock.
C20_AccessUnderLock ==
    access.by # 0 => access.locked

\* The same for the accesses made inside acquire().
AcquireAccessUnderLock ==
    (access.by # 0 /\ access.at = "acquire") => access.locked

\* The sleeps begun so far, by the position of retry(): one per failed
\* attempt while the loop goes on, one less once the last attempt has failed.
SleepsCounted ==
    /\ (rq_pc = "raised" /\ max_retries > 0) =>
          /\ Len(exc_log) = max_retries
          /\ Len(sleep_log) = max_retries - 1
    /\ rq_pc \in {"returned", "exited"} => Len(sleep_log) = op_calls - 1
    /\ rq_pc = "bsleep" =>
          /\ Len(sleep_log) = Len(exc_log)
          /\ Len(exc_log) < max_retries

\* C21: in retry() no sleep follows the last failed attempt: when all
\* max_retries attempts failed, exactly max_retries - 1 sleeps were begun and
\* the error is raised with no sleep after the last failure; when attempt k
\* succeeds, exactly k - 1 sleeps were begun, and after the return op is not
\* invoked again and no further sleep begins.
C21_NoSleepAfterLastAttempt ==
    [][ /\ SleepsCounted'
        /\ rq_pc \in {"returned", "exited", "raised"} =>
              (op_calls' = op_calls /\ sleep_log' = sleep_log
                  /\ rq_pc' \in {"returned", "exited", "raised"})
      ]_vars

\* Four attempts that all failed, with three sleeps between them, and the
\* error raised after the fourth.
C21_Witness ==
    /\ rq_pc = "raised"
    /\ max_retries = 4
    /\ op_calls = 4
    /\ Len(exc_log) = 4
    /\ Len(sleep_log) = 3

\* An attempt that succeeded after two failures and two sleeps.
ReturnedAfterTwoSleeps ==
    /\ rq_pc = "returned"
    /\ op_calls = 3
    /\ Len(sleep_log) = 2
    /\ max_retries > 3

\* C22: the delay starts at initial_delay; the sleep after a failure is
\* min(max_delay, delay * multiplier) of the delay before it, with a further
\* factor 2 under the min after a rate-limit failure (status 429 or a
\* rate-limit marker in the message); every sleep is at most max_delay, and
\* the sleep after a rate-limit failure is at least the one an other failure
\* would have produced from the same prior delay.
C22_BackoffDelays ==
    /\ sleep_log = <<>> => delay = InitialDelay
    /\ \A i \in DOMAIN sleep_log :
          LET prior == IF i = 1 THEN InitialDelay ELSE sleep_log[i - 1]
              limited == exc_log[i].status = 429 \/ exc_log[i].marker
              other == Min(MaxDelay, prior * Multiplier)
          IN /\ i <= Len(exc_log)
             /\ sleep_log[i] = IF limited THEN Min(MaxDelay, prior * Multiplier * 2)
                               ELSE other
             /\ sleep_log[i] <= MaxDelay
             /\ limited => sleep_log[i] >= other
    /\ sleep_log # <<>> => delay = sleep_log[Len(sleep_log)]

\* Three rate-limit failures in a row: sleeps of 4, 16 and then the cap of
\* 60 where the product would have been 64; and a run where an other failure
\* doubled the delay only once.
C22_Witness ==
    /\ Len(sleep_log) = 3
    /\ sleep_log[2] * Multiplier * 2 > MaxDelay
    /\ sleep_log[3] = MaxDelay
    /\ exc_log[3].status = 429

\* A failure that is no rate-limit failure, slept min(max_delay, delay * multiplier).
SleepAfterOtherFailure ==
    /\ Len(sleep_log) = 2
    /\ exc_log[1].status = 500 /\ ~exc_log[1].marker
    /\ exc_log[2].status = 0 /\ exc_log[2].marker
    /\ sleep_log = <<InitialDelay * Multiplier, InitialDelay * Multiplier * Multiplier * 2>>

\* The stored points of a market with timestamps in [from, to).
PointsIn(key, from, to) ==
    {i \in DOMAIN df :
        df[i].market_id = key /\ from <= df[i].timestamp /\ df[i].timestamp < to}

\* The evaluated point itself is in the store: update(market) ran before the
\* detection.
AppendedBefore ==
    \E i \in DOMAIN df :
        /\ df[i].market_id = det.market.key
        /\ df[i].timestamp = det.market.ts
        /\ df[i].probability = det.market.prob

\* C23: detect_spikes returns no signal unless at least 2 stored points of
\* the market have timestamps in [t - 1h, t), t the new point's timestamp;
\* the baseline of a signal is exactly the points with t - 1h <= timestamp < t,
\* so the evaluated point is never in its own baseline, appended or not.
C23_BaselineExcludesNewPoint ==
    det.called =>
        LET t == det.market.ts
            window == PointsIn(det.market.key, t - TicksPerHour, t)
        IN /\ det.spike.method # "none" =>
                 /\ Cardinality(window) >= 2
                 /\ det.spike.baseline = window
           /\ \A i \in det.spike.baseline : df[i].timestamp # t

\* A signal for a point that update() had appended before the detection, from
\* a baseline of two other points.
C23_Witness ==
    /\ det.called
    /\ AppendedBefore
    /\ det.spike.method # "none"
    /\ Cardinality(det.spike.baseline) = 2
    /\ Cardinality(PointsIn(det.market.key, 0, MaxTime + 1)) >= 3

\* A signal for a point that is not in the store.
SignalBeforeAppend ==
    /\ det.called
    /\ ~AppendedBefore
    /\ det.spike.method # "none"

\* C24: when the baseline window has at least 2 points, all of one
\* probability mu > 0 (zero standard deviation), detect_spikes signals with
\* method percentage if and only if |curr - mu| / mu * 100 >= spike_percentage.
C24_PercentageFallback ==
    det.called =>
        LET t == det.market.ts
            window == PointsIn(det.market.key, t - TicksPerHour, t)
        IN \A i \in window :
              LET mu == df[i].probability
              IN (/\ Cardinality(window) >= 2
                  /\ mu > 0
                  /\ \A j \in window : df[j].probability = mu)
                 => /\ det.spike.method \in {"percentage", "none"}
                    /\ det.spike.method = "percentage" <=>
                          Abs(det.market.prob - mu) * 100 >= SpikePercentage * mu

\* The same for a baseline of exactly two points, whose mean is exact.
PercentageFallbackOfTwo ==
    det.called =>
        LET t == det.market.ts
            window == PointsIn(det.market.key, t - TicksPerHour, t)
        IN \A i \in window :
              LET mu == df[i].probability
              IN (/\ Cardinality(window) = 2
                  /\ mu > 0
                  /\ \A j \in window : df[j].probability = mu)
                 => /\ det.spike.method \in {"percentage", "none"}
                    /\ det.spike.method = "percentage" <=>
                          Abs(det.market.prob - mu) * 100 >= SpikePercentage * mu

\* Two points of 0.350 and a new point of 0.386: a change of 10.29 percent,
\* signalled.
PercentageSignalled ==
    /\ det.called
    /\ det.spike.method = "percentage"
    /\ det.market.prob = 386
    /\ Cardinality(det.spike.baseline) = 2
    /\ \A i \in det.spike.baseline : df[i].probability = 350

\* Two points of 0.386 and a new point of 0.350: a change of 9.33 percent,
\* not signalled.
BelowPercentage ==
    /\ det.called
    /\ det.spike.method = "none"
    /\ det.market.prob = 350
    /\ LET window == PointsIn(det.market.key, det.market.ts - TicksPerHour, det.market.ts)
       IN /\ Cardinality(window) = 2
          /\ \A i \in window : df[i].probability = 386

\* Three points of 0.386 and a new point of 0.350: the same change of 9.33
\* percent, signalled by the z-score check.
ResidueSignalled ==
    /\ det.called
    /\ det.spike.method = "z_score"
    /\ det.market.prob = 350
    /\ Cardinality(det.spike.baseline) = 3
    /\ \A i \in det.spike.baseline : df[i].probability = 386

\* n * (curr - mean) of a window, as the sum of the differences, and
\* n * n * (n - 1) * variance / n as the sum of the squared differences of
\* all pairs of points.
DiffSum(window) == SumOver(window, [i \in window |-> det.market.prob - df[i].probability])
PairSquares(window) ==
    LET pairs == {q \in window \X window : q[1] < q[2]}
    IN SumOver(pairs, [q \in pairs |->
              (df[q[1]].probability - df[q[2]].probability)
                 * (df[q[1]].probability - df[q[2]].probability)])

\* |(curr - mean) / std| >= z_threshold of a window with non-zero sample
\* standard deviation: std^2 = PairSquares / (n * (n - 1)).
ZScoreAtLeastThreshold(window) ==
    LET n == Cardinality(window)
    IN DiffSum(window) * DiffSum(window) * (n - 1)
          >= ZThreshold * ZThreshold * n * PairSquares(window)

\* C25: when the baseline window has non-zero standard deviation,
\* detect_spikes signals with method z_score if and only if
\* |(curr - mean) / std| >= z_threshold, mean and std the mean and the sample
\* standard deviation of the baseline window.
C25_ZScoreIff ==
    det.called =>
        LET t == det.market.ts
            window == PointsIn(det.market.key, t - TicksPerHour, t)
        IN (Cardinality(window) >= 2 /\ PairSquares(window) > 0) =>
              (det.spike.method = "z_score" <=> ZScoreAtLeastThreshold(window))

\* A baseline of 0.350 and 0.386 and a new point of 0: a z-score of about
\* -14.5, signalled.
C25_Witness ==
    /\ det.called
    /\ det.spike.method = "z_score"
    /\ det.market.prob = 0
    /\ {df[i].probability : i \in det.spike.baseline} = {350, 386}

\* The oldest points of the short window of the call.
OldestRecent ==
    LET recent == PointsIn(det.market.key, det.market.ts - spike_window_minutes,
                           det.market.ts)
    IN {i \in recent : \A j \in recent : df[i].timestamp <= df[j].timestamp}

\* The percentage change of the new point against stored point i reaches
\* the threshold.
ChangeAgainst(i) ==
    /\ df[i].probability > 0
    /\ Abs(det.market.prob - df[i].probability) * 100 >= SpikePercentage * df[i].probability

\* C26: whenever neither the z-score check nor the 1-hour percentage check
\* fires (the zero-deviation case included), and for every configured
\* spike_window_minutes: if at least 1 point lies in
\* [t - spike_window_minutes, t), a signal with method percentage_window is
\* produced if and only if the percentage change against the oldest such
\* point is at least spike_percentage.
C26_WindowCheckAfterOtherChecks ==
    (/\ det.called
     /\ Cardinality(PointsIn(det.market.key, det.market.ts - TicksPerHour,
                             det.market.ts)) >= 2
     /\ det.spike.method \notin {"percentage", "z_score"}
     /\ OldestRecent # {})
    => /\ det.spike.method = "percentage_window" =>
             \E i \in OldestRecent : ChangeAgainst(i)
       /\ (\A i \in OldestRecent : ChangeAgainst(i)) =>
             det.spike.method = "percentage_window"

\* The same with the zero-deviation case left out: where the baseline has
\* variation the window check is made.
WindowCheckAfterZScore ==
    (/\ det.called
     /\ PairSquares(PointsIn(det.market.key, det.market.ts - TicksPerHour,
                             det.market.ts)) > 0
     /\ det.spike.method # "z_score"
     /\ OldestRecent # {})
    => /\ det.spike.method = "percentage_window" =>
             \E i \in OldestRecent : ChangeAgainst(i)
       /\ (\A i \in OldestRecent : ChangeAgainst(i)) =>
             det.spike.method = "percentage_window"

\* C27: a detect_spikes call gives at most one signal, of method percentage,
\* z_score or percentage_window; the checks run in that order: percentage
\* only for a baseline without variation, percentage_window only when the
\* z-score check did not fire.
C27_OneSignalInOrder ==
    det.called =>
        LET window == PointsIn(det.market.key, det.market.ts - TicksPerHour,
                               det.market.ts)
        IN /\ det.spike.method \in {"none", "percentage", "z_score", "percentage_window"}
           /\ det.spike.method = "percentage" => PairSquares(window) = 0
           /\ det.spike.method = "percentage_window" =>
                 (PairSquares(window) = 0 \/ ~ZScoreAtLeastThreshold(window))

\* A percentage_window signal: the z-score of the new point is under the
\* threshold and its change against the oldest point of the short window is
\* not.
C27_Witness ==
    /\ det.called
    /\ det.spike.method = "percentage_window"
    /\ det.spike.oldest \in OldestRecent
    /\ ChangeAgainst(det.spike.oldest)
    /\ PairSquares(det.spike.baseline) > 0

\* The stored points of the market in the trailing hour with a volume.
PositiveVolumes ==
    {i \in PointsIn(det.market.key, det.market.ts - TicksPerHour, det.market.ts) :
        df[i].volume > 0}

\* C28: detect_volume_surge signals if and only if the current volume is
\* present, at least one stored point of the market in [t - 1h, t) has
\* volume > 0 and current volume >= mean * surge multiplier, the mean taken
\* over exactly those points; the reported multiplier is current volume / mean.
C28_SurgeIff ==
    det.called =>
        LET n == Cardinality(PositiveVolumes)
            V == SumOver(PositiveVolumes, [i \in PositiveVolumes |-> df[i].volume])
        IN /\ det.surge.signal <=>
                 /\ det.market.vol # None
                 /\ PositiveVolumes # {}
                 /\ det.market.vol * n >= VolumeSurgeMultiplier * V
           /\ det.surge.signal =>
                 /\ det.surge.baseline = PositiveVolumes
                 /\ det.surge.multiplier = [num |-> det.market.vol * n, den |-> V]

\* The same for a store that holds at least two points of the market.
SurgeIffWithTwoPoints ==
    (det.called /\ Cardinality(PointsIn(det.market.key, 0, MaxTime + 1)) >= 2) =>
        LET n == Cardinality(PositiveVolumes)
            V == SumOver(PositiveVolumes, [i \in PositiveVolumes |-> df[i].volume])
        IN /\ det.surge.signal <=>
                 /\ det.market.vol # None
                 /\ PositiveVolumes # {}
                 /\ det.market.vol * n >= VolumeSurgeMultiplier * V
           /\ det.surge.signal =>
                 /\ det.surge.baseline = PositiveVolumes
                 /\ det.surge.multiplier = [num |-> det.market.vol * n, den |-> V]

\* A surge over a baseline that leaves out a point without volume.
SurgeSignalled ==
    /\ det.called
    /\ det.surge.signal
    /\ det.surge.baseline #
          PointsIn(det.market.key, det.market.ts - TicksPerHour, det.market.ts)

\* C29: for every history of probabilities in [0,1] and volumes >= 0 (zero
\* standard deviation, zero mean, zero or missing historical volume, single
\* point, empty store), detect_spikes and detect_volume_surge return a signal
\* or no signal and never divide by zero.
C29_NoNumericError ==
    det.called =>
        /\ det.spike.method # "ZeroDivisionError"
        /\ det.surge.multiplier.den # 0

\* A baseline of two points of probability 0 without volume: mean and
\* deviation are zero, no historical volume, and the calls return no signal.
C29_Witness ==
    /\ det.called
    /\ LET window == PointsIn(det.market.key, det.market.ts - TicksPerHour, det.market.ts)
       IN /\ Cardinality(window) >= 2
          /\ \A i \in window : df[i].probability = 0 /\ df[i].volume = 0
    /\ det.market.prob > 0
    /\ det.market.vol # None
    /\ det.spike.method = "none"
    /\ ~det.surge.signal

\* Detection on the empty store, and on a store with a single point.
DetectOnEmptyStore == det.called /\ df = <<>>
DetectOnSinglePoint == det.called /\ Len(df) = 1 /\ df[1].market_id = det.market.key

\* C30: after any sequence of update calls, observations with a timestamp
\* earlier than one already stored for the market included, the stored
\* series of a market has no two consecutive points in decreasing timestamp
\* order.
C30_SeriesInTimestampOrder ==
    \A i, j \in DOMAIN df :
        (/\ i < j
         /\ df[i].market_id = df[j].market_id
         /\ \A k \in DOMAIN df : (i < k /\ k < j) => df[k].market_id # df[i].market_id)
        => df[i].timestamp <= df[j].timestamp


\* C31: cleanup_known_trade_ids run at time T removes exactly the trade ids
\* admitted before T - DATA_RETENTION_HOURS, whatever timestamp the trade id
\* carries, keeps every other entry with its admission time, returns the
\* number it removed, and leaves only entries admitted within the horizon.
C31_CleanupRemovesExpired ==
    [][cleanup_log'.calls # cleanup_log.calls =>
          LET cutoff == now - DATA_RETENTION_HOURS
              expired == {tid \in DOMAIN known_trade_ids :
                              known_trade_ids[tid] < cutoff}
          IN /\ \A tid \in expired : tid \notin DOMAIN known_trade_ids'
             /\ \A tid \in DOMAIN known_trade_ids \ expired :
                    /\ tid \in DOMAIN known_trade_ids'
                    /\ known_trade_ids'[tid] = known_trade_ids[tid]
             /\ cleanup_log'.removed = Cardinality(expired)
             /\ \A tid \in DOMAIN known_trade_ids' :
                    known_trade_ids'[tid] >= cutoff]_vars

\* A cleanup that removed one id and kept another admitted earlier than now.
CleanupRemovedOneKeptOne ==
    /\ cleanup_log.removed = 1
    /\ \E tid \in DOMAIN known_trade_ids : known_trade_ids[tid] < now


\* C32: a periodic save that fails with a disk error leaves known_market_ids,
\* known_trade_ids and last_probability as they were and does not end the
\* periodic save task: the task is back in its sleep, from which the next
\* save is attempted.
C32_FailedSaveNotFatal ==
    [][(main_pc = "running" /\ save_pc # "idle" /\ save_pc' = "idle"
            /\ fs_dest' = fs_dest /\ save_fault') =>
          /\ known_market_ids' = known_market_ids
          /\ known_trade_ids' = known_trade_ids
          /\ last_probability' = last_probability
          /\ main_pc' = "running"
          /\ task'["save"] = task["save"]
          /\ task'["save"].pc \in {"sleep", "done"}
          /\ task'["save"].pc = "done" => ~running']_vars

\* A failed periodic save behind a task that waits for its next turn, with the
\* tracker holding a market.
FailedSaveTaskSleeping ==
    /\ main_pc = "running"
    /\ save_fault
    /\ op_log = "save"
    /\ known_market_ids # {}
    /\ task["save"].pc = "sleep"
    /\ ~task["save"].cancel
    /\ running


\* C33: while a process_market_update call holds the probability it read for
\* its market, no other task runs: the stored probability is still the one it
\* read, the next step is its own update, and nothing else of the tracker
\* state changes meanwhile; the markets of a cycle are taken in fetch order,
\* one after the other.
C33_UpdateAtomicInOrder ==
    [][\A f \in Feeds :
          cyc[f].pc = "compare" =>
              /\ cyc[f].prev = PrevProbability(FeedKey(f))
              /\ cyc'[f].pc # "compare"
              /\ \A g \in Feeds \ {f} : cyc'[g] = cyc[g] /\ cyc[g].pc # "compare"
              /\ known_market_ids' = known_market_ids
              /\ known_trade_ids' = known_trade_ids
              /\ save_pc = "idle" /\ save_pc' = "idle"
              /\ last_probability' = StoreProbability(FeedKey(f), cyc[f].markets[cyc[f].idx])
              /\ last_call'.prob = cyc[f].markets[cyc[f].idx]
              /\ cyc'[f].pc = "read" =>
                    cyc'[f].markets = cyc[f].markets /\ cyc'[f].idx = cyc[f].idx + 1]_vars

\* A poller about to compare the second market of its cycle while the
\* WebSocket handler waits with a message for the same market.
SecondMarketWhileOtherFeedWaits ==
    /\ cyc["poll_polymarket"].pc = "compare"
    /\ cyc["poll_polymarket"].idx = 2
    /\ cyc["websocket_polymarket"].pc = "await_fetch"
    /\ last_call.key = "polymarket:a"
    /\ last_call.prob # cyc["poll_polymarket"].markets[2]


\* C34: within one process lifetime known_market_ids only grows: a tracked
\* market key is never removed, so a key that process_market_update has
\* handled before is found tracked and gets no second silent baseline.
C34_KnownMarketsOnlyGrow ==
    [][/\ life' = life => known_market_ids \subseteq known_market_ids'
       /\ (last_call'.key # "" /\ ~last_call'.first) => last_call'.was_known]_vars

\* Both markets tracked, the one handled last for the second time in this
\* lifetime and found tracked.
BothTrackedSecondSighting ==
    /\ known_market_ids = MarketKeys
    /\ last_call.key # ""
    /\ ~last_call.first
    /\ last_call.was_known
    /\ main_pc = "running"


\* C39: an observation of a market that differs from the observation of the
\* same market handled just before it by less than the threshold emits no
\* probability-change signal, however far the probability has drifted from
\* the first observation.
C39_SmallStepsNeverSignal ==
    [][(/\ last_call' # last_call
        /\ life' = life
        /\ last_call.key # ""
        /\ last_call'.key = last_call.key
        /\ Abs(last_call'.prob - last_call.prob) * 100
               < PROBABILITY_CHANGE_THRESHOLD * ProbScale)
          => ~last_call'.emitted]_vars

\* Three observations of one cycle handled without a signal, each half a
\* threshold above the one before, the third a full threshold above the first.
DriftedByThresholdSilently ==
    LET c == cyc["poll_polymarket"]
    IN /\ c.pc = "read"
       /\ c.idx = 4
       /\ SubSeq(c.markets, 1, 3) = <<500, 505, 510>>
       /\ ChangeFires(c.markets[1], c.markets[3])
       /\ last_call.prob = 510
       /\ last_call.prev = 505
       /\ ~last_call.emitted


\* C36: a shutdown signal handled at any moment after the handlers are
\* installed, also while initialize() or the setup before the tasks is still
\* running, is not lost: the final state save of shutdown() follows.
C36_SignalLeadsToFinalSave ==
    (signals > 0) ~> (final_saves > 0)

\* The same for a signal that finds initialize() finished.
SignalAfterInitializeLeadsToFinalSave ==
    (signals > 0 /\ ~running /\ main_pc # "initializing") ~> (final_saves > 0)


\* C37: for every max_retries, 0 included, a retry() that has ended has
\* invoked op at least once, and it either returned the response of an
\* invocation that passed or raised an exception that an invocation raised.
C37_RetryInvokesOpAndPassesOutcome ==
    rq_pc \in {"returned", "raised"} =>
        /\ op_calls >= 1
        /\ outcome.kind = "returned" => outcome.exc.status = 200 /\ responses >= 1
        /\ outcome.kind = "raised" =>
               \E i \in DOMAIN exc_log : exc_log[i] = outcome.exc

\* The same for a positive max_retries.
RetryPassesOutcomeWhenPositive ==
    max_retries > 0 => C37_RetryInvokesOpAndPassesOutcome


\* C38: every response a RetryableRequest attempt opens is released exactly
\* once: one that fails the status validation before the next retry or before
\* the failure propagates, the one that passes when the context exits; none
\* stays open and none is released twice.
C38_ResponsesReleasedOnce ==
    /\ open_resp = (IF rq_pc \in {"validate", "returned"} THEN 1 ELSE 0)
    /\ rq_pc \in {"exited", "raised", "cancelled"} => open_resp = 0
    /\ rq_pc = "returned" => responses >= 1 /\ validations = responses

\* A context left after two responses: the first failed its validation, the
\* second was returned, and both are released.
TwoResponsesReleased ==
    /\ rq_pc = "exited"
    /\ responses = 2
    /\ Len(exc_log) = 1
    /\ exc_log[1].status # 0
    /\ open_resp = 0


\* C35: any two messages the TelegramSender sends, from however many
\* concurrent send_message tasks, are at least 1 / rate_limit seconds apart.
C35_SendsSpaced ==
    \A i, j \in DOMAIN sends : i < j => sends[j] - sends[i] >= MinInterval

\* The same while at most one task is inside _rate_limit_wait at a time.
SendsSpacedWithoutOverlap ==
    [][(\A t \in Senders : sender[t].pc # "sleep") /\ C35_SendsSpaced
          => C35_SendsSpaced']_vars


\* C40: whatever the venues answer, the page loops end after a bounded number
\* of requests: the Polymarket market loop after at most OffsetCap / PageLimit
\* + 1 pages (101 for 10000 and 100), the Kalshi loop after at most
\* KalshiPageCap pages (10), the trade loop after at most TradeOffsetCap /
\* page_size + 1 pages; a loop that has made that many requests is over.
C40_PageLoopsBounded ==
    LET poly_max == OffsetCap \div PageLimit + 1
        trade_max == IF trade_pages.limit <= 0 THEN 0
                     ELSE TradeOffsetCap \div PageSize(trade_pages.limit) + 1
    IN /\ poly_pages.requests <= poly_max
       /\ poly_pages.requests = poly_max => poly_pages.pc = "done"
       /\ kalshi_pages.requests <= KalshiPageCap
       /\ kalshi_pages.requests = KalshiPageCap => kalshi_pages.pc = "done"
       /\ trade_pages.requests <= trade_max
       /\ trade_pages.requests = trade_max /\ trade_max > 0 => trade_pages.pc = "done"

\* All three loops ended by their safety limits: every page was full, the
\* Kalshi cursor repeated, no trade was large.
AllLoopsEndedByLimits ==
    /\ poly_pages = [pc |-> "done", offset |-> (OffsetCap \div PageLimit + 1) * PageLimit,
                     requests |-> OffsetCap \div PageLimit + 1]
    /\ kalshi_pages = [pc |-> "done", cursor |-> "c1", requests |-> KalshiPageCap]
    /\ trade_pages.pc = "done"
    /\ trade_pages.limit = 1
    /\ trade_pages.found = 0
    /\ trade_pages.requests = TradeOffsetCap + 1

=============================================================================
